---------------------------- MODULE Spec2Model ----------------------------
(***************************************************************************)
(* A model of the check-servers family of health-check tools.              *)
(*                                                                         *)
(*   src/src/check/servers/__init__.py   the check_servers library         *)
(*   src/check-servers.py                the standalone check-servers tool *)
(*   src/check-dns.py                    the check-dns tool                *)
(*   src/check-docker.py                 the check-docker tool             *)
(*   src/src/check/docker/__init__.py    the check_docker library          *)
(*                                                                         *)
(* Python strings are modelled as sequences of one-character strings, so   *)
(* that strip, split, startswith, int() and float() are computed on the    *)
(* characters as the interpreter computes them.                            *)
(*                                                                         *)
(* Specifications:                                                         *)
(*   SpecConfig  parse_config (library and standalone), line by line       *)
(*   SpecSelect  find_config_file and the -l/-r filter (both tools)        *)
(*   SpecPing    the retry loop of ping_server for one server              *)
(*   SpecRun     the dispatcher of the four tools and the render           *)
(*   SpecRunFair SpecRun with the scheduling of the thread pool            *)
(*   SpecProbe   one call of a DNS probe or of a container probe           *)
(*   SpecEdit    one add or remove command on the configuration files      *)
(*   SpecEditRace  two add or remove commands at the same time             *)
(***************************************************************************)
EXTENDS Integers, Sequences, FiniteSets, TLC

VARIABLES
    \* ---- SpecConfig: locating, parsing and filtering the configuration
    cpc,              \* position: "find", "parse", "filter", "done", "nofile", "raised"
    parser,           \* which parse_config / filter runs: "lib" or "standalone"
    userExists,       \* USER_CONFIG_FILE.exists()
    sysExists,        \* SYSTEM_CONFIG_FILE.exists()
    configFile,       \* what find_config_file returned: "unset", "user", "system", "none"
    text,             \* the lines of the file read so far, in file order
    settings,         \* parse_config's settings dict
    servers,          \* parse_config's servers list
    current_section,  \* parse_config's current_section (NoSection for None)
    args,             \* the argparse namespace: [local, remote]
    servers_to_check, \* the filtered list
    configExc,        \* the exception that left the run: "none", "ValueError", "IOError",
                      \* or the exception of a probe that left main
    \* ---- SpecPing: one call of ping_server
    ppc,              \* "loop", "returned", "raised", "idle"
    pingRetries,      \* the retries argument
    attempts,         \* the subprocess.run outcomes so far, one per attempt
    pingResult,       \* the PingResult returned, or NoResult
    \* ---- SpecRun: the dispatcher and the render
    rpc,              \* "submit", "collect", "render", "done", "aborted", "idle"
    tool,             \* "servers" (run_pings + display_results), "dns" (check-dns main),
                      \* "standalone" (check-servers.py main), "docker" (check-docker.py main)
    entities,         \* the work items, in canonical order
    future,           \* per work item: its future's state
    collected,        \* the indices whose future as_completed has yielded
    current,          \* the loop variable: the index of the future yielded last, or 0
    results,          \* the result map (check-docker: the list all_results)
    reported,         \* the names for which an error was printed, in order
    progress,         \* how often progress.update(advance=1) ran
    quiet,            \* args.quiet, as display_results reads it
    rows,             \* the rows added to the table, in order
    summary,          \* the counts of the summary line(s), or NoSummary
    \* ---- SpecProbe: one call of a DNS or container probe
    fpc,              \* "call", "done", "idle"
    fn,               \* the function called: "get_dns_records", "check_site",
                      \* "check_host_containers", "get_container_details",
                      \* "parse_config" (of check-docker.py)
    fnArgs,           \* its arguments
    fnEnv,            \* what the resolver or the container endpoint does during the call
    fnOutcome,        \* how the call ended: Return(value) or Raise(exception)
    \* ---- SpecEdit, SpecEditRace: the add and remove commands
    userFile,         \* USER_CONFIG_FILE: [exists, content]
    sysFile,          \* SYSTEM_CONFIG_FILE: [exists, content]
    inv               \* the invocations of the tool that run, each an Invocation

configVars == <<cpc, parser, userExists, sysExists, configFile, text, settings,
                servers, current_section, args, servers_to_check, configExc>>
pingVars   == <<ppc, pingRetries, attempts, pingResult>>
runVars    == <<rpc, tool, entities, future, collected, current, results, reported,
                progress, quiet, rows, summary>>
probeVars  == <<fpc, fn, fnArgs, fnEnv, fnOutcome>>
editVars   == <<userFile, sysFile, inv>>
vars       == <<configVars, pingVars, runVars, probeVars, editVars>>

-----------------------------------------------------------------------------
(* Bounds of the model. *)

\* the longest configuration file, in lines
MaxLines == 4
\* the largest retries argument of a modelled ping_server call
MaxRetries == 3
\* the largest number of work items of one modelled check run
MaxEntities == 3
\* the longest configuration file of a modelled add or remove, in lines
MaxFileLines == 3

-----------------------------------------------------------------------------
(* Python str operations, on sequences of characters. *)

Whitespace == {" ", "\n", "\t"}
Digits     == {"0", "1", "2", "3", "4", "5", "6", "7", "8", "9"}

DigitVal(c) ==
    CASE c = "0" -> 0 [] c = "1" -> 1 [] c = "2" -> 2 [] c = "3" -> 3
      [] c = "4" -> 4 [] c = "5" -> 5 [] c = "6" -> 6 [] c = "7" -> 7
      [] c = "8" -> 8 [] c = "9" -> 9

SetMin(S) == CHOOSE x \in S : \A y \in S : x <= y
SetMax(S) == CHOOSE x \in S : \A y \in S : x >= y

\* s[a..b], empty when a > b (Python slicing never fails)
Slice(s, a, b) == IF a > b THEN <<>> ELSE SubSeq(s, a, b)

\* str.strip()
Strip(s) ==
    LET keep == {i \in 1..Len(s) : s[i] \notin Whitespace}
    IN  IF keep = {} THEN <<>> ELSE Slice(s, SetMin(keep), SetMax(keep))

\* str.startswith(c) and str.endswith(c) for a one-character c
StartsWith(s, c) == Len(s) >= 1 /\ s[1] = c
EndsWith(s, c)   == Len(s) >= 1 /\ s[Len(s)] = c

\* c in s
Contains(s, c) == \E i \in 1..Len(s) : s[i] = c

\* s.split(c, 1) for an s that contains c: the text before the first c, and the rest
SplitOnce(s, c) ==
    LET i == SetMin({j \in 1..Len(s) : s[j] = c})
    IN  <<Slice(s, 1, i - 1), Slice(s, i + 1, Len(s))>>

\* s.split(maxsplit=1): at most two tokens, cut at the first whitespace run; the
\* second token is the rest of the line with its leading whitespace removed
SplitWs(s) ==
    LET body == {i \in 1..Len(s) : s[i] \notin Whitespace}
    IN  IF body = {} THEN <<>>
        ELSE LET b    == SetMin(body)
                 gaps == {i \in b..Len(s) : s[i] \in Whitespace}
             IN  IF gaps = {} THEN <<Slice(s, b, Len(s))>>
                 ELSE LET g    == SetMin(gaps)
                          rest == {i \in g..Len(s) : s[i] \notin Whitespace}
                      IN  IF rest = {} THEN <<Slice(s, b, g - 1)>>
                          ELSE <<Slice(s, b, g - 1), Slice(s, SetMin(rest), Len(s))>>

RECURSIVE DigitsValue(_)
\* the value of a run of decimal digits
DigitsValue(ds) ==
    IF ds = <<>> THEN 0
    ELSE 10 * DigitsValue(Slice(ds, 1, Len(ds) - 1)) + DigitVal(ds[Len(ds)])

AllDigits(s) == \A i \in 1..Len(s) : s[i] \in Digits

\* a number without its sign
Unsigned(s) == IF StartsWith(s, "-") \/ StartsWith(s, "+") THEN Slice(s, 2, Len(s)) ELSE s
Sign(s)     == IF StartsWith(s, "-") THEN -1 ELSE 1

\* Python numbers: an int n, or a float mant * 10^-exp
IntValue(n)       == [kind |-> "int", mant |-> n, exp |-> 0]
FloatValue(m, e)  == [kind |-> "float", mant |-> m, exp |-> e]
ValueError        == [kind |-> "ValueError", mant |-> 0, exp |-> 0]

\* int(s): an optional sign and at least one digit, else ValueError
ParseInt(s) ==
    LET v == Strip(s)
        u == Unsigned(v)
    IN  IF u # <<>> /\ AllDigits(u) THEN IntValue(Sign(v) * DigitsValue(u))
        ELSE ValueError

\* float(s) for an s over digits, sign and '.': an optional sign, digits with at
\* most one '.', and at least one digit, else ValueError
ParseFloat(s) ==
    LET v    == Strip(s)
        u    == Unsigned(v)
        dots == {i \in 1..Len(u) : u[i] = "."}
    IN  IF Cardinality(dots) = 0
        THEN IF u # <<>> /\ AllDigits(u)
             THEN FloatValue(Sign(v) * DigitsValue(u), 0) ELSE ValueError
        ELSE IF Cardinality(dots) = 1
        THEN LET d    == SetMin(dots)
                 ip   == Slice(u, 1, d - 1)
                 frac == Slice(u, d + 1, Len(u))
             IN  IF AllDigits(ip) /\ AllDigits(frac) /\ Len(ip) + Len(frac) >= 1
                 THEN FloatValue(Sign(v) * DigitsValue(ip \o frac), Len(frac))
                 ELSE ValueError
        ELSE ValueError

-----------------------------------------------------------------------------
(* The configuration: find_config_file, parse_config and the -l/-r filter. *)

KindLocal  == <<"l", "o", "c", "a", "l">>
KindRemote == <<"r", "e", "m", "o", "t", "e">>
KeyTimeout == <<"t", "i", "m", "e", "o", "u", "t">>
KeyRetries == <<"r", "e", "t", "r", "i", "e", "s">>

\* current_section = None
NoSection == <<"N", "o", "n", "e", "!">>

\* settings = {'timeout': 0.2, 'retries': 3}
DefaultSettings == [timeout |-> FloatValue(2, 1), retries |-> IntValue(3)]

\* Server(ip, name, type)
Server(ip, name, type) == [ip |-> ip, name |-> name, type |-> type]

\* the state of parse_config between two lines; raised is the exception that left it
ParseState(se, sv, cs, ex) ==
    [settings |-> se, servers |-> sv, current_section |-> cs, raised |-> ex]

ParseStart == ParseState(DefaultSettings, <<>>, NoSection, "none")

\* settings[key] = v, for key 'timeout' or 'retries'
SetSetting(se, key, v) ==
    IF key = KeyTimeout THEN [se EXCEPT !.timeout = v] ELSE [se EXCEPT !.retries = v]

\* float(value) if '.' in value else int(value)
ParseNumber(value) ==
    IF Contains(value, ".") THEN ParseFloat(value) ELSE ParseInt(value)

\* the mutant of FindConfigFile: the system path is tried first
FindConfigFileSystemFirst(user, system) ==
    IF system THEN "system" ELSE IF user THEN "user" ELSE "none"

\* find_config_file(): the user path if it exists, else the system path if it
\* exists, else None
FindConfigFile(user, system) ==
    IF user THEN "user" ELSE IF system THEN "system" ELSE "none"

\* the library's setting assignment: a ValueError is swallowed
AssignSettingLib(st, line) ==
    LET parts == SplitOnce(line, "=")
        key   == Strip(parts[1])
        value == Strip(parts[2])
        v     == ParseNumber(value)
    IN  IF key \in {KeyTimeout, KeyRetries} /\ v.kind # "ValueError"
        THEN [st EXCEPT !.settings = SetSetting(st.settings, key, v)]
        ELSE st

\* the standalone tool's setting assignment: a ValueError leaves parse_config
AssignSettingStandalone(st, line) ==
    LET parts == SplitOnce(line, "=")
        key   == Strip(parts[1])
        value == parts[2]
        v     == IF Contains(value, ".") THEN ParseFloat(Strip(value))
                 ELSE ParseInt(Strip(value))
    IN  IF key \in {KeyTimeout, KeyRetries}
        THEN IF v.kind = "ValueError" THEN [st EXCEPT !.raised = "ValueError"]
             ELSE [st EXCEPT !.settings = SetSetting(st.settings, key, v)]
        ELSE st

\* the mutant of AppendServer: the new server is put in front of the list
AppendServerInFront(st, line) ==
    LET parts == SplitWs(line)
    IN  IF Len(parts) >= 2
        THEN [st EXCEPT !.servers =
                 <<Server(parts[1], parts[2], st.current_section)>> \o st.servers]
        ELSE st

\* the entity branch: the line is split into address and name
AppendServer(st, line) ==
    LET parts == SplitWs(line)
    IN  IF Len(parts) >= 2
        THEN [st EXCEPT !.servers =
                 Append(st.servers, Server(parts[1], parts[2], st.current_section))]
        ELSE st

\* one iteration of parse_config's loop over the file, with the tool's way of
\* assigning a setting
ParseLineWith(st, raw, standalone) ==
    LET line == Strip(raw)
    IN  IF line = <<>> \/ StartsWith(line, "#") THEN st
        ELSE IF StartsWith(line, "[") /\ EndsWith(line, "]")
        THEN [st EXCEPT !.current_section = Slice(line, 2, Len(line) - 1)]
        ELSE IF Contains(line, "=")
        THEN IF standalone THEN AssignSettingStandalone(st, line)
             ELSE AssignSettingLib(st, line)
        ELSE IF st.current_section \in {KindLocal, KindRemote}
        THEN AppendServer(st, line)
        ELSE st

\* the mutant of ParseLineLib: inside a section the entity branch is tried before
\* the '=' branch
ParseLineLibEntityFirst(st, raw) ==
    LET line == Strip(raw)
    IN  IF line = <<>> \/ StartsWith(line, "#") THEN st
        ELSE IF StartsWith(line, "[") /\ EndsWith(line, "]")
        THEN [st EXCEPT !.current_section = Slice(line, 2, Len(line) - 1)]
        ELSE IF st.current_section \in {KindLocal, KindRemote}
        THEN AppendServer(st, line)
        ELSE IF Contains(line, "=") THEN AssignSettingLib(st, line)
        ELSE st

\* one iteration of the loop of the library's parse_config
ParseLineLib(st, raw) == ParseLineWith(st, raw, FALSE)

\* one iteration of the loop of check-servers.py's parse_config
ParseLineStandalone(st, raw) == ParseLineWith(st, raw, TRUE)

\* [s for s in all_servers if s.type == type]
OfType(all_servers, type) == SelectSeq(all_servers, LAMBDA s : s.type = type)

\* the library's get_servers_to_check(all_servers, args)
GetServersToCheck(all_servers, a) ==
    IF a.local /\ ~a.remote THEN OfType(all_servers, KindLocal)
    ELSE IF a.remote /\ ~a.local THEN OfType(all_servers, KindRemote)
    ELSE all_servers

\* the filter of check-servers.py's main
FilterStandalone(all_servers, a) ==
    IF a.local THEN OfType(all_servers, KindLocal)
    ELSE IF a.remote THEN OfType(all_servers, KindRemote)
    ELSE all_servers

\* the servers of a modelled list: two of them share the name a
SampleServers ==
    { Server(<<"1">>, <<"a">>, KindLocal),
      Server(<<"2">>, <<"b">>, KindRemote),
      Server(<<"3">>, <<"a">>, KindRemote) }

\* the lists of at least one and at most n elements of S
ListsUpTo(S, n) == UNION {[1..k -> S] : k \in 1..n}

\* the lines a modelled configuration file is made of
SampleLines ==
    { <<" ">>,                                      \* blank after strip
      <<"#", "1", " ", "a">>,                       \* a comment
      <<"[">> \o KindLocal \o <<"]">>,
      <<"[">> \o KindRemote \o <<"]">>,
      <<"[", "x", "]">>,                            \* a section that is no kind
      KeyRetries \o <<" ", "=", " ", "2">>,
      KeyRetries \o <<"=", "2", ".", "5">>,
      KeyRetries \o <<"=", "x">>,                      \* not a number
      KeyTimeout \o <<" ", "=", ".", "5">>,
      <<"1", " ", "a">>,                            \* address 1, name a
      <<" ", "2", " ", " ", "b", " ", "c">>,        \* address 2, name "b c"
      <<"b", "a", "d">>,                            \* one token
      <<"3", " ", "a", "=", "b">> }                 \* two tokens and an '='

ArgSets == [local : BOOLEAN, remote : BOOLEAN]
NoArgs  == [local |-> FALSE, remote |-> FALSE]

\* the groups of variables at rest, for the specifications that do not use them
ConfigIdle ==
    /\ cpc = "idle" /\ parser = "lib" /\ userExists = FALSE /\ sysExists = FALSE
    /\ configFile = "unset" /\ text = <<>> /\ settings = DefaultSettings
    /\ servers = <<>> /\ current_section = NoSection /\ args = NoArgs
    /\ servers_to_check = <<>> /\ configExc = "none"

\* find_config_file is called: either tool, any state of the two paths
FindStart ==
    /\ cpc = "find" /\ parser \in {"lib", "standalone"}
    /\ userExists \in BOOLEAN /\ sysExists \in BOOLEAN
    /\ configFile = "unset" /\ text = <<>> /\ settings = DefaultSettings
    /\ servers = <<>> /\ current_section = NoSection /\ args = NoArgs
    /\ servers_to_check = <<>> /\ configExc = "none"

\* parse_config(config_file) is called, of either tool, for the user's file
ParseStartState ==
    /\ cpc = "parse" /\ parser \in {"lib", "standalone"}
    /\ userExists = TRUE /\ sysExists = FALSE
    /\ configFile = "user" /\ text = <<>> /\ settings = DefaultSettings
    /\ servers = <<>> /\ current_section = NoSection /\ args = NoArgs
    /\ servers_to_check = <<>> /\ configExc = "none"

\* config_file = find_config_file(); if not config_file: print and return
FindConfig ==
    /\ cpc = "find"
    /\ configFile' = FindConfigFile(userExists, sysExists)
    /\ cpc' = IF configFile' = "none" THEN "nofile" ELSE "parse"
    /\ UNCHANGED <<parser, userExists, sysExists, text, settings, servers,
                   current_section, args, servers_to_check, configExc>>
    /\ UNCHANGED <<pingVars, runVars, probeVars, editVars>>

\* open(config_file) fails: the library wraps the error in an IOError and raises
\* it, the standalone tool lets it pass; no caller catches either
OpenFails ==
    /\ cpc = "parse" /\ text = <<>>
    /\ cpc' = "raised" /\ configExc' = "IOError"
    /\ UNCHANGED <<parser, userExists, sysExists, configFile, text, settings, servers,
                   current_section, args, servers_to_check>>
    /\ UNCHANGED <<pingVars, runVars, probeVars, editVars>>

\* the loop of parse_config reads the next line of the file
ReadLine ==
    /\ cpc = "parse" /\ Len(text) < MaxLines
    /\ \E raw \in SampleLines :
          LET st == ParseState(settings, servers, current_section, "none")
              nx == IF parser = "lib" THEN ParseLineLib(st, raw)
                    ELSE ParseLineStandalone(st, raw)
          IN  /\ text' = Append(text, raw)
              /\ settings' = nx.settings
              /\ servers' = nx.servers
              /\ current_section' = nx.current_section
              /\ configExc' = nx.raised
              /\ cpc' = IF nx.raised = "none" THEN "parse" ELSE "raised"
    /\ UNCHANGED <<parser, userExists, sysExists, configFile, args, servers_to_check>>
    /\ UNCHANGED <<pingVars, runVars, probeVars, editVars>>

\* the file is exhausted: return settings, servers
EndOfFile ==
    /\ cpc = "parse"
    /\ cpc' = "filter"
    /\ UNCHANGED <<parser, userExists, sysExists, configFile, text, settings, servers,
                   current_section, args, servers_to_check, configExc>>
    /\ UNCHANGED <<pingVars, runVars, probeVars, editVars>>

\* the filter is applied to a parsed list of at most MaxEntities servers
FilterStart ==
    /\ cpc = "filter" /\ parser \in {"lib", "standalone"}
    /\ userExists = TRUE /\ sysExists = FALSE
    /\ configFile = "user" /\ text = <<>> /\ settings = DefaultSettings
    /\ servers \in {<<>>} \cup ListsUpTo(SampleServers, MaxEntities)
    /\ current_section = NoSection /\ args = NoArgs
    /\ servers_to_check = <<>> /\ configExc = "none"

\* servers_to_check = get_servers_to_check(all_servers, args), or main's filter
Filter ==
    /\ cpc = "filter"
    /\ \E a \in ArgSets :
          /\ args' = a
          /\ servers_to_check' = IF parser = "lib" THEN GetServersToCheck(servers, a)
                                 ELSE FilterStandalone(servers, a)
    /\ cpc' = "done"
    /\ UNCHANGED <<parser, userExists, sysExists, configFile, text, settings, servers,
                   current_section, configExc>>
    /\ UNCHANGED <<pingVars, runVars, probeVars, editVars>>

-----------------------------------------------------------------------------
(* The ping probe: ping_server. *)

STATUS_OK   == "OK"
STATUS_DOWN == "DOWN"

\* latency = None
NoLatency == [kind |-> "None", mant |-> 0, exp |-> 0]

\* PingResult(server, status, latency)
PingResult(server, status, latency) ==
    [server |-> server, status |-> status, latency |-> latency]

\* no PingResult (the call has not returned, or has raised)
NoResult == [server |-> Server(<<>>, <<>>, <<>>), status |-> "-", latency |-> NoLatency]

\* what subprocess.run(["ping", ...]) did: it raised exc, or it returned a
\* CompletedProcess with this returncode and stdout
Outcome(exc, returncode, stdout) ==
    [exc |-> exc, returncode |-> returncode, stdout |-> stdout]

\* re.search(r"time=([\d.]+)\s*ms", s): the leftmost place where "time=" is followed
\* by a (maximal) run of digits and dots, optional whitespace, and "ms"; the run is
\* group 1
RunEnd(s, i) ==
    LET stops == {j \in i..Len(s) : s[j] \notin Digits \cup {"."}}
    IN  IF stops = {} THEN Len(s) ELSE SetMin(stops) - 1
SkipWs(s, i) ==
    LET stops == {j \in i..Len(s) : s[j] \notin Whitespace}
    IN  IF stops = {} THEN Len(s) + 1 ELSE SetMin(stops)
MatchesAt(s, i) ==
    /\ i + 4 <= Len(s)
    /\ SubSeq(s, i, i + 4) = <<"t", "i", "m", "e", "=">>
    /\ RunEnd(s, i + 5) >= i + 5
    /\ LET m == SkipWs(s, RunEnd(s, i + 5) + 1)
       IN  m + 1 <= Len(s) /\ s[m] = "m" /\ s[m + 1] = "s"
SearchTime(s) ==
    LET at == {i \in 1..Len(s) : MatchesAt(s, i)}
    IN  IF at = {} THEN [matched |-> FALSE, group |-> <<>>]
        ELSE [matched |-> TRUE,
              group |-> SubSeq(s, SetMin(at) + 5, RunEnd(s, SetMin(at) + 5))]

\* how one iteration of the retry loop, or the whole call, ends
Continue        == [kind |-> "continue", exc |-> "none", result |-> NoResult]
Return(result)  == [kind |-> "return", exc |-> "none", result |-> result]
Raise(exc)      == [kind |-> "raise", exc |-> exc, result |-> NoResult]

\* the mutant of PingAttempt: a zero exit status is enough for OK
PingAttemptExitOnly(server, out) ==
    IF out.exc # "none" THEN Raise(out.exc)
    ELSE IF out.returncode = 0
    THEN LET match == SearchTime(out.stdout)
         IN  IF match.matched /\ ParseFloat(match.group).kind # "ValueError"
             THEN Return(PingResult(server, STATUS_OK, ParseFloat(match.group)))
             ELSE Return(PingResult(server, STATUS_OK, NoLatency))
    ELSE Continue

\* one iteration of ping_server's loop, given what subprocess.run did
PingAttempt(server, out) ==
    IF out.exc # "none" THEN Raise(out.exc)
    ELSE IF out.returncode = 0
    THEN LET match == SearchTime(out.stdout)
         IN  IF match.matched
             THEN LET latency == ParseFloat(match.group)
                  IN  IF latency.kind = "ValueError" THEN Raise("ValueError")
                      ELSE Return(PingResult(server, STATUS_OK, latency))
             ELSE Continue
    ELSE Continue

\* the mutant of LoopEnds: one attempt more than retries
LoopEndsOffByOne(retries, n) == n >= retries + 1

\* range(retries) is exhausted after n iterations
LoopEnds(retries, n) == n >= retries

\* return PingResult(server=server, status=STATUS_DOWN)
PingDown(server) == PingResult(server, STATUS_DOWN, NoLatency)

RECURSIVE PingLoop(_, _, _, _)
\* ping_server's loop from its iteration n + 1 on, outs[k] being what the k-th
\* subprocess.run does
PingLoop(server, retries, outs, n) ==
    IF LoopEnds(retries, n) THEN Return(PingDown(server))
    ELSE LET a == PingAttempt(server, outs[n + 1])
         IN  IF a.kind = "continue" THEN PingLoop(server, retries, outs, n + 1) ELSE a

\* ping_server(server, timeout, retries); range(retries) raises TypeError for a
\* retries that is no int
PingServer(server, retries, outs) ==
    IF retries.kind # "int" THEN Raise("TypeError")
    ELSE PingLoop(server, retries.mant, outs, 0)

\* the stdout texts of a modelled ping: "time=5 ms", "ttl=9 time=1.5ms", and three
\* without a round-trip time: "", "time=5" and "time= 5 ms"
OutTime5    == <<"t", "i", "m", "e", "=", "5", " ", "m", "s">>
OutTime15   == <<"t", "t", "l", "=", "9", " ", "t", "i", "m", "e", "=", "1", ".", "5", "m", "s">>
OutNoUnit   == <<"t", "i", "m", "e", "=", "5">>
OutOther    == <<"t", "i", "m", "e", "=", " ", "5", " ", "m", "s">>
SampleStdout == {<<>>, OutTime5, OutTime15, OutNoUnit, OutOther}

\* what one subprocess.run of a modelled ping can do
SampleOutcomes ==
    {Outcome("FileNotFoundError", 0, <<>>)}
    \cup {Outcome("none", 0, o) : o \in SampleStdout}
    \cup {Outcome("none", 1, o) : o \in {<<>>, OutTime5}}

\* the server of the modelled ping_server call
PingTarget == Server(<<"1">>, <<"a">>, KindLocal)

PingIdle ==
    ppc = "idle" /\ pingRetries = 0 /\ attempts = <<>> /\ pingResult = NoResult

\* ping_server(PingTarget, timeout, retries) is called
PingStart ==
    ppc = "loop" /\ pingRetries \in 0..MaxRetries /\ attempts = <<>>
    /\ pingResult = NoResult

\* one iteration of the loop: subprocess.run, then the test of its result
Attempt ==
    /\ ppc = "loop" /\ ~LoopEnds(pingRetries, Len(attempts))
    /\ \E out \in SampleOutcomes :
          LET a == PingAttempt(PingTarget, out)
          IN  /\ attempts' = Append(attempts, out)
              /\ ppc' = CASE a.kind = "continue" -> "loop"
                          [] a.kind = "return" -> "returned"
                          [] a.kind = "raise" -> "raised"
              /\ pingResult' = a.result
    /\ UNCHANGED pingRetries
    /\ UNCHANGED <<configVars, runVars, probeVars, editVars>>

\* the loop is exhausted: DOWN
Exhausted ==
    /\ ppc = "loop" /\ LoopEnds(pingRetries, Len(attempts))
    /\ ppc' = "returned"
    /\ pingResult' = PingDown(PingTarget)
    /\ UNCHANGED <<pingRetries, attempts>>
    /\ UNCHANGED <<configVars, runVars, probeVars, editVars>>

-----------------------------------------------------------------------------
(* The DNS probe of check-dns: get_dns_records and check_site. *)

WEBSITES ==
    << <<"g", "o", "o", "g", "l", "e", ".", "c", "o", "m">>,
       <<"c", "l", "o", "u", "d", "f", "l", "a", "r", "e", ".", "c", "o", "m">>,
       <<"g", "i", "t", "h", "u", "b", ".", "c", "o", "m">>,
       <<"y", "o", "u", "t", "u", "b", "e", ".", "c", "o", "m">>,
       <<"a", "m", "a", "z", "o", "n", ".", "c", "o", "m">>,
       <<"r", "e", "d", "d", "i", "t", ".", "c", "o", "m">>,
       <<"n", "e", "t", "f", "l", "i", "x", ".", "c", "o", "m">>,
       <<"m", "i", "c", "r", "o", "s", "o", "f", "t", ".", "c", "o", "m">>,
       <<"a", "p", "p", "l", "e", ".", "c", "o", "m">> >>

\* "-", the text of a record that did not resolve
Dash == <<"-">>

\* DNSQueryResult(status, ipv4, ipv6)
DNSQueryResult(status, ipv4, ipv6) == [status |-> status, ipv4 |-> ipv4, ipv6 |-> ipv6]

\* the exceptions of resolver.resolve that get_dns_records catches
CaughtDnsErrors == {"NoAnswer", "NXDOMAIN", "Timeout", "NoNameservers"}

\* what one resolver.resolve did: it raised exc, or it answered with this first record
Query(exc, record) == [exc |-> exc, record |-> record]

\* the text of one record type after its try block: the first record of the
\* answer, "-" after a caught error
RecordText(q) == IF q.exc = "none" THEN q.record ELSE Dash

\* the mutant of GetDnsRecords: one try block around both queries, so that an A
\* query that fails leaves the AAAA query out
GetDnsRecordsOneTry(a, aaaa) ==
    IF a.exc \notin CaughtDnsErrors \cup {"none"} THEN Raise(a.exc)
    ELSE IF a.exc = "none" /\ aaaa.exc \notin CaughtDnsErrors \cup {"none"} THEN Raise(aaaa.exc)
    ELSE LET ipv4 == RecordText(a)
             ipv6 == IF a.exc = "none" THEN RecordText(aaaa) ELSE Dash
         IN  [kind |-> "return", exc |-> "none",
              result |-> DNSQueryResult(IF ipv4 # Dash \/ ipv6 # Dash THEN "OK" ELSE "FAIL",
                                        ipv4, ipv6)]

\* get_dns_records(website, server), a being what the A query did and aaaa what
\* the AAAA query did; an error that is not caught leaves the function
GetDnsRecords(a, aaaa) ==
    IF a.exc \notin CaughtDnsErrors \cup {"none"} THEN Raise(a.exc)
    ELSE IF aaaa.exc \notin CaughtDnsErrors \cup {"none"} THEN Raise(aaaa.exc)
    ELSE LET ipv4 == RecordText(a)
             ipv6 == RecordText(aaaa)
         IN  [kind |-> "return", exc |-> "none",
              result |-> DNSQueryResult(IF ipv4 # Dash \/ ipv6 # Dash THEN "OK" ELSE "FAIL",
                                        ipv4, ipv6)]

\* SiteCheckResult(site, ph1_result, ph2_result, display_ipv4, display_ipv6)
SiteCheckResult(site, ph1, ph2, v4, v6) ==
    [site |-> site, ph1_result |-> ph1, ph2_result |-> ph2,
     display_ipv4 |-> v4, display_ipv6 |-> v6]

\* the mutant of CheckSite: the record of PIHOLE2 is preferred
CheckSitePrefersSecond(site, q) ==
    LET r1 == GetDnsRecords(q[1], q[2])
        r2 == GetDnsRecords(q[3], q[4])
    IN  IF r1.kind = "raise" THEN Raise(r1.exc)
        ELSE IF r2.kind = "raise" THEN Raise(r2.exc)
        ELSE LET ph1 == r1.result
                 ph2 == r2.result
             IN  [kind |-> "return", exc |-> "none",
                  result |-> SiteCheckResult(site, ph1, ph2,
                                IF ph2.ipv4 # Dash THEN ph2.ipv4 ELSE ph1.ipv4,
                                IF ph2.ipv6 # Dash THEN ph2.ipv6 ELSE ph1.ipv6)]

\* check_site(site), q being what the four queries do: PIHOLE1's A and AAAA, then
\* PIHOLE2's A and AAAA
CheckSite(site, q) ==
    LET r1 == GetDnsRecords(q[1], q[2])
        r2 == GetDnsRecords(q[3], q[4])
    IN  IF r1.kind = "raise" THEN Raise(r1.exc)
        ELSE IF r2.kind = "raise" THEN Raise(r2.exc)
        ELSE LET ph1 == r1.result
                 ph2 == r2.result
             IN  [kind |-> "return", exc |-> "none",
                  result |-> SiteCheckResult(site, ph1, ph2,
                                IF ph1.ipv4 # Dash THEN ph1.ipv4 ELSE ph2.ipv4,
                                IF ph1.ipv6 # Dash THEN ph1.ipv6 ELSE ph2.ipv6)]

-----------------------------------------------------------------------------
(* The container probes: check_host_containers of check-docker.py and       *)
(* get_container_details of the check_docker library.                       *)

\* the exceptions that the two probes catch
CaughtDockerErrors == {"APIError", "DockerException"}

\* a container as the endpoint lists it: its name, its status, whether its state
\* is Running with a StartedAt, the texts of its uptime, image, networks and
\* ports, and what the lookup of its image raises ("none": it answers)
Container(name, status, imageExc) ==
    [name |-> name, status |-> status, imageExc |-> imageExc,
     running |-> (status = "running"), uptime |-> "0:05:00", image |-> "sha256:1",
     networks |-> "bridge", ports |-> "--"]

\* what the endpoint of a host does: docker.from_env raises connect,
\* client.containers.list raises list ("none": no error), or it answers with all
Endpoint(connect, list, all) == [connect |-> connect, list |-> list, all |-> all]

\* container_map = {c.name: c for c in all_host_containers}
ContainerMap(all) ==
    [n \in {all[k].name : k \in DOMAIN all} |->
        all[SetMax({k \in DOMAIN all : all[k].name = n})]]

\* the tuple (name, host, status, info) of check_host_containers
ContainerResult(name, host, status, info) ==
    [name |-> name, host |-> host, status |-> status, info |-> info]

\* the mutant of CheckContainer: a container of the index is OK whatever its state
CheckContainerFoundIsOk(name, host, container_map) ==
    IF name \in DOMAIN container_map
    THEN ContainerResult(name, host, "OK", container_map[name].status)
    ELSE ContainerResult(name, host, "DOWN", "Not Found")

\* the body of check_host_containers's loop for one name
CheckContainer(name, host, container_map) ==
    IF name \in DOMAIN container_map
    THEN LET container == container_map[name]
         IN  ContainerResult(name, host,
                             IF container.status = "running" THEN "OK" ELSE "DOWN",
                             container.status)
    ELSE ContainerResult(name, host, "DOWN", "Not Found")

\* the except block of check_host_containers, reached with the results so far: a
\* FAIL tuple is appended for every name; another exception leaves the probe
HostUnreachable(sofar, host, containers, exc) ==
    IF exc \in CaughtDockerErrors
    THEN Return(sofar \o [k \in 1..Len(containers) |->
                    ContainerResult(containers[k], host, "FAIL", "Host Unreachable")])
    ELSE Raise(exc)

\* check_host_containers(host, containers), ep being what the endpoint does
CheckHostContainers(host, containers, ep) ==
    IF ep.connect # "none" THEN HostUnreachable(<<>>, host, containers, ep.connect)
    ELSE IF ep.list # "none" THEN HostUnreachable(<<>>, host, containers, ep.list)
    ELSE Return([k \in 1..Len(containers) |->
                    CheckContainer(containers[k], host, ContainerMap(ep.all))])

\* DockerInfo(name, status, uptime, image, networks, ports)
DockerInfo(name, status, uptime, image, networks, ports) ==
    [name |-> name, status |-> status, uptime |-> uptime, image |-> image,
     networks |-> networks, ports |-> ports]

\* DockerInfo of a name that is not in the index
NotFoundInfo(name) == DockerInfo(name, "Not Found", "--", "--", "--", "--")

\* DockerInfo of a container of the index, once the lookup of its image answered
DetailsOf(name, container) ==
    DockerInfo(name, container.status,
               IF container.running THEN container.uptime ELSE "--",
               container.image, container.networks, container.ports)

RECURSIVE DetailsLoop(_, _, _, _)
\* the loop of get_container_details from its k-th name on: the results, and the
\* exception that ended the loop ("none": it ran to its end)
DetailsLoop(sofar, container_names, container_map, k) ==
    IF k > Len(container_names) THEN [results |-> sofar, exc |-> "none"]
    ELSE LET name == container_names[k]
         IN  IF name \notin DOMAIN container_map
             THEN DetailsLoop(Append(sofar, NotFoundInfo(name)), container_names,
                              container_map, k + 1)
             ELSE IF container_map[name].imageExc # "none"
             THEN [results |-> sofar, exc |-> container_map[name].imageExc]
             ELSE DetailsLoop(Append(sofar, DetailsOf(name, container_map[name])),
                              container_names, container_map, k + 1)

\* the except block of get_container_details, reached with the results so far
DaemonUnreachable(sofar, container_names, exc) ==
    IF exc \in CaughtDockerErrors
    THEN Return(sofar \o [k \in 1..Len(container_names) |->
                    DockerInfo(container_names[k], "FAIL", "--", "--", exc, "--")])
    ELSE Raise(exc)

\* get_container_details(container_names), ep being what the endpoint does
GetContainerDetails(container_names, ep) ==
    IF ep.connect # "none" THEN DaemonUnreachable(<<>>, container_names, ep.connect)
    ELSE IF ep.list # "none" THEN DaemonUnreachable(<<>>, container_names, ep.list)
    ELSE LET r == DetailsLoop(<<>>, container_names, ContainerMap(ep.all), 1)
         IN  IF r.exc = "none" THEN Return(r.results)
             ELSE DaemonUnreachable(r.results, container_names, r.exc)

\* names of containers and of hosts
NameWeb == <<"w", "e", "b">>
NameDb  == <<"d", "b">>
NameApp == <<"a", "p", "p">>
HostLocal == <<"l", "o", "c", "a", "l", "h", "o", "s", "t">>
HostNas   == <<"n", "a", "s">>

\* the containers that a reachable endpoint lists: none; web running and db
\* exited; both running, the image of db not to be inspected; db paused
SampleIndexes ==
    { <<>>,
      <<Container(NameWeb, "running", "none"), Container(NameDb, "exited", "none")>>,
      <<Container(NameWeb, "running", "none"), Container(NameDb, "running", "APIError")>>,
      <<Container(NameDb, "paused", "none")>> }

\* what an endpoint does: the daemon is down, the listing is refused, the
\* connection breaks during the listing, or it lists its containers
SampleEndpoints ==
    { Endpoint("DockerException", "none", <<>>),
      Endpoint("none", "APIError", <<>>),
      Endpoint("none", "OSError", <<>>) }
        \cup {Endpoint("none", "none", all) : all \in SampleIndexes}

\* the container names of a host, or of the flat file: up to MaxEntities names
SampleNameLists == {<<>>} \cup ListsUpTo({NameWeb, NameDb, NameApp}, MaxEntities)

-----------------------------------------------------------------------------
(* The dispatcher and the render: run_pings and display_results of the     *)
(* library, and main of check-dns, of check-servers.py and of              *)
(* check-docker.py.                                                        *)

\* a dict: a function on the set of its keys
EmptyMap == [k \in {} |-> NoResult]
Put(m, k, v) == [x \in DOMAIN m \cup {k} |-> IF x = k THEN v ELSE m[x]]
Has(m, k) == k \in DOMAIN m

\* a future: not yet submitted, running in a worker thread, or finished with the
\* way its call ended
NotSubmitted == [state |-> "unsubmitted", outcome |-> Continue]
Running      == [state |-> "running", outcome |-> Continue]
Finished(o)  == [state |-> "finished", outcome |-> o]

\* the work item that the dict comprehension submits next, 0 when none is left
NextToSubmit(fut) ==
    LET left == {i \in DOMAIN fut : fut[i].state = "unsubmitted"}
    IN  IF left = {} THEN 0 ELSE SetMin(left)

\* what the dispatching thread holds after the body of its loop: the result map
\* (the result list of check-docker), the error lines it has printed, and the
\* exception that left the body ("none": the loop goes on)
Merged(res, rep) == [results |-> res, reported |-> rep, raised |-> "none"]
Escaped(res, rep, exc) == [results |-> res, reported |-> rep, raised |-> exc]

\* the mutant of CollectPing: a probe that raised ends the collection, and what
\* was collected is dropped
CollectPingAborts(acc, server, o) ==
    IF o.kind = "return"
    THEN Merged(Put(acc.results, o.result.server.name, o.result), acc.reported)
    ELSE Merged(EmptyMap, Append(acc.reported, <<server.name, o.exc>>))

\* the mutant of CollectPing: a probe that raised is written to the map as DOWN
CollectPingWritesDown(acc, server, o) ==
    IF o.kind = "return"
    THEN Merged(Put(acc.results, o.result.server.name, o.result), acc.reported)
    ELSE Merged(Put(acc.results, server.name, PingDown(server)),
                Append(acc.reported, <<server.name, o.exc>>))

\* the mutant of CollectPing: the first result stored under a name is kept
CollectPingKeepsFirst(acc, server, o) ==
    IF o.kind = "return"
    THEN Merged(IF Has(acc.results, o.result.server.name) THEN acc.results
                ELSE Put(acc.results, o.result.server.name, o.result), acc.reported)
    ELSE IF o.exc = "FileNotFoundError"
    THEN Merged(acc.results, Append(acc.reported, <<server.name, "ping not found">>))
    ELSE Merged(acc.results, Append(acc.reported, <<server.name, o.exc>>))

\* the body of run_pings's loop over as_completed for the future of server, which
\* ended as o: the result is stored under its server's name, an exception is
\* reported with the server's name
CollectPing(acc, server, o) ==
    IF o.kind = "return"
    THEN Merged(Put(acc.results, o.result.server.name, o.result), acc.reported)
    ELSE IF o.exc = "FileNotFoundError"
    THEN Merged(acc.results, Append(acc.reported, <<server.name, "ping not found">>))
    ELSE Merged(acc.results, Append(acc.reported, <<server.name, o.exc>>))

\* the body of check-dns main's loop over as_completed for the future of site
CollectSite(acc, site, o) ==
    IF o.kind = "return"
    THEN Merged(Put(acc.results, site, o.result), acc.reported)
    ELSE Merged(acc.results, Append(acc.reported, <<site, o.exc>>))

\* the body of check-servers.py main's loop over as_completed: future.result()
\* is called outside any try, so that the exception of the probe leaves main
CollectStandalone(acc, server, o) ==
    IF o.kind = "return"
    THEN Merged(Put(acc.results, o.result.server.name, o.result), acc.reported)
    ELSE Escaped(acc.results, acc.reported, o.exc)

\* the body of check-docker.py main's loop over as_completed:
\* all_results.extend(future.result()), outside any try
CollectDocker(acc, host, o) ==
    IF o.kind = "return"
    THEN Merged(acc.results \o o.result, acc.reported)
    ELSE Escaped(acc.results, acc.reported, o.exc)

\* a + b for two floats (or the int 0 and a float)
AddFloat(a, b) ==
    LET e  == IF a.exp >= b.exp THEN a.exp ELSE b.exp
    IN  FloatValue(a.mant * 10^(e - a.exp) + b.mant * 10^(e - b.exp), e)

\* f"{x:.2f}" for an x of at most two decimals: x in hundredths
Hundredths(x) == x.mant * 10^(2 - x.exp)

\* the table and the counters of display_results
Shown(rws, up, down, total) ==
    [rows |-> rws, up_count |-> up, down_count |-> down, total_latency |-> total]

\* table.add_row(res.server.name, res.server.ip, res.server.type, status, time)
ServerRow(res) ==
    [name |-> res.server.name, ip |-> res.server.ip, type |-> res.server.type,
     status |-> res.status,
     time |-> IF res.status = STATUS_OK THEN Hundredths(res.latency) ELSE -1]

\* the mutant of DisplayOne: the row is put before the rows already in the table
DisplayOneOnTop(acc, server, res, q) ==
    IF ~Has(res, server.name) THEN acc
    ELSE LET r == res[server.name]
         IN  IF r.status = STATUS_OK
             THEN Shown(IF q THEN acc.rows ELSE <<ServerRow(r)>> \o acc.rows,
                        acc.up_count + 1, acc.down_count,
                        IF r.latency.kind # "None"
                        THEN AddFloat(acc.total_latency, r.latency)
                        ELSE acc.total_latency)
             ELSE Shown(<<ServerRow(r)>> \o acc.rows, acc.up_count, acc.down_count + 1,
                        acc.total_latency)

\* the mutant of DisplayOne: in quiet mode an OK result is left out of the
\* counters as it is left out of the table
DisplayOneQuietSkips(acc, server, res, q) ==
    IF ~Has(res, server.name) THEN acc
    ELSE LET r == res[server.name]
         IN  IF r.status = STATUS_OK
             THEN IF q THEN acc
                  ELSE Shown(Append(acc.rows, ServerRow(r)),
                             acc.up_count + 1, acc.down_count,
                             AddFloat(acc.total_latency, r.latency))
             ELSE Shown(Append(acc.rows, ServerRow(r)), acc.up_count, acc.down_count + 1,
                        acc.total_latency)

\* the body of display_results's loop for one server
DisplayOne(acc, server, res, q) ==
    IF ~Has(res, server.name) THEN acc
    ELSE LET r == res[server.name]
         IN  IF r.status = STATUS_OK
             THEN Shown(IF q THEN acc.rows ELSE Append(acc.rows, ServerRow(r)),
                        acc.up_count + 1, acc.down_count,
                        IF r.latency.kind # "None"
                        THEN AddFloat(acc.total_latency, r.latency)
                        ELSE acc.total_latency)
             ELSE Shown(Append(acc.rows, ServerRow(r)), acc.up_count, acc.down_count + 1,
                        acc.total_latency)

RECURSIVE DisplayLoop(_, _, _, _, _)
\* display_results's loop over servers_to_check, from its k-th server on
DisplayLoop(acc, list, res, q, k) ==
    IF k > Len(list) THEN acc
    ELSE DisplayLoop(DisplayOne(acc, list[k], res, q), list, res, q, k + 1)

\* the mutant of DisplayResults: the denominator of the STATS line is the number
\* of servers that were counted
DisplayResultsTotalOfCounted(list, res, q) ==
    LET acc == DisplayLoop(Shown(<<>>, 0, 0, IntValue(0)), list, res, q, 1)
    IN  [rows    |-> acc.rows,
         printed |-> IF Len(acc.rows) > 0 THEN "table"
                     ELSE IF ~q THEN "notice" ELSE "nothing",
         up      |-> acc.up_count,
         total   |-> acc.up_count + acc.down_count,
         down    |-> acc.down_count,
         avg     |-> IF acc.up_count > 0
                     THEN [num |-> acc.total_latency.mant,
                           den |-> 10^acc.total_latency.exp * acc.up_count]
                     ELSE [num |-> 0, den |-> 1]]

\* the mutant of DisplayResults: the average is taken over all listed servers
DisplayResultsAvgOverAll(list, res, q) ==
    LET acc == DisplayLoop(Shown(<<>>, 0, 0, IntValue(0)), list, res, q, 1)
    IN  [rows    |-> acc.rows,
         printed |-> IF Len(acc.rows) > 0 THEN "table"
                     ELSE IF ~q THEN "notice" ELSE "nothing",
         up      |-> acc.up_count,
         total   |-> Len(list),
         down    |-> acc.down_count,
         avg     |-> IF acc.up_count > 0
                     THEN [num |-> acc.total_latency.mant,
                           den |-> 10^acc.total_latency.exp * Len(list)]
                     ELSE [num |-> 0, den |-> 1]]

\* display_results(servers_to_check, results, args, console): the rows of the
\* table, what is printed for the table, and the numbers of the STATS line; the
\* average is the fraction total_latency / up_count, or 0
DisplayResults(list, res, q) ==
    LET acc == DisplayLoop(Shown(<<>>, 0, 0, IntValue(0)), list, res, q, 1)
    IN  [rows    |-> acc.rows,
         printed |-> IF Len(acc.rows) > 0 THEN "table"
                     ELSE IF ~q THEN "notice" ELSE "nothing",
         up      |-> acc.up_count,
         total   |-> Len(list),
         down    |-> acc.down_count,
         avg     |-> IF acc.up_count > 0
                     THEN [num |-> acc.total_latency.mant,
                           den |-> 10^acc.total_latency.exp * acc.up_count]
                     ELSE [num |-> 0, den |-> 1]]

\* table.add_row(res.site, ph1_status, ph2_status, res.display_ipv4, res.display_ipv6)
SiteRow(res) ==
    [site |-> res.site, ph1 |-> res.ph1_result.status, ph2 |-> res.ph2_result.status,
     ipv4 |-> res.display_ipv4, ipv6 |-> res.display_ipv6]

RECURSIVE DnsLoop(_, _, _, _)
\* check-dns main's loop over WEBSITES, from its k-th site on; up_count counts
\* ph1_ok and down_count counts ph2_ok
DnsLoop(acc, list, res, k) ==
    IF k > Len(list) THEN acc
    ELSE IF ~Has(res, list[k]) THEN DnsLoop(acc, list, res, k + 1)
    ELSE LET r == res[list[k]]
         IN  DnsLoop(Shown(Append(acc.rows, SiteRow(r)),
                           acc.up_count + (IF r.ph1_result.status = "OK" THEN 1 ELSE 0),
                           acc.down_count + (IF r.ph2_result.status = "OK" THEN 1 ELSE 0),
                           acc.total_latency),
                     list, res, k + 1)

\* the table and the two STATS lines of check-dns main
DisplayDns(list, res) ==
    LET acc == DnsLoop(Shown(<<>>, 0, 0, IntValue(0)), list, res, 1)
    IN  [rows |-> acc.rows, printed |-> "table", total |-> Len(list),
         ph1_ok |-> acc.up_count, ph2_ok |-> acc.down_count]

\* the table and the STATS line of check-servers.py main: its loop is the loop of
\* display_results (an OK result always carries a latency, which main adds
\* without a test), and its table is printed whether it has rows or not
DisplayStandalone(list, res, q) ==
    [DisplayResults(list, res, q) EXCEPT !.printed = "table"]

\* the characters of ASCII from the space on, in the order of their code points
\* (the backtick, which a string of this language cannot hold, keeps its place)
Ascii ==
    << " ", "!", "\"", "#", "$", "%", "&", "'", "(", ")", "*", "+", ",", "-", ".", "/",
       "0", "1", "2", "3", "4", "5", "6", "7", "8", "9", ":", ";", "<", "=", ">", "?",
       "@", "A", "B", "C", "D", "E", "F", "G", "H", "I", "J", "K", "L", "M", "N", "O",
       "P", "Q", "R", "S", "T", "U", "V", "W", "X", "Y", "Z", "[", "\\", "]", "^", "_",
       "(backtick)", "a", "b", "c", "d", "e", "f", "g", "h", "i", "j", "k", "l", "m", "n", "o",
       "p", "q", "r", "s", "t", "u", "v", "w", "x", "y", "z", "{", "|", "}", "~" >>

\* ord(c)
Ord(c) == 31 + (CHOOSE i \in DOMAIN Ascii : Ascii[i] = c)

\* s < t for two str
StrLess(s, t) ==
    LET n == IF Len(s) < Len(t) THEN Len(s) ELSE Len(t)
        d == {i \in 1..n : s[i] # t[i]}
    IN  IF d = {} THEN Len(s) < Len(t)
        ELSE Ord(s[SetMin(d)]) < Ord(t[SetMin(d)])

\* key(x) < key(y) for the sort key (x[1], x[0]) of check-docker: host, then name
KeyLess(x, y) ==
    IF x.host # y.host THEN StrLess(x.host, y.host) ELSE StrLess(x.name, y.name)

\* x put into a sorted list behind the elements that are not greater than it
InsertSorted(sorted, x) ==
    LET at == Cardinality({i \in DOMAIN sorted : ~KeyLess(x, sorted[i])})
    IN  SubSeq(sorted, 1, at) \o <<x>> \o SubSeq(sorted, at + 1, Len(sorted))

RECURSIVE SortFrom(_, _, _)
\* all_results.sort(key=lambda x: (x[1], x[0])), a stable sort: the list from
\* its k-th element on is put into sorted
SortFrom(sorted, list, k) ==
    IF k > Len(list) THEN sorted
    ELSE SortFrom(InsertSorted(sorted, list[k]), list, k + 1)

\* the body of check-docker.py main's loop over the sorted results
DockerOne(acc, r, q) ==
    IF r.status = "OK"
    THEN Shown(IF q THEN acc.rows ELSE Append(acc.rows, r),
               acc.up_count + 1, acc.down_count, acc.total_latency)
    ELSE Shown(Append(acc.rows, r), acc.up_count, acc.down_count + 1, acc.total_latency)

RECURSIVE DockerLoop(_, _, _, _)
DockerLoop(acc, list, q, k) ==
    IF k > Len(list) THEN acc
    ELSE DockerLoop(DockerOne(acc, list[k], q), list, q, k + 1)

\* the table and the STATS line of check-docker.py main
DisplayDocker(all_results, q) ==
    LET acc == DockerLoop(Shown(<<>>, 0, 0, IntValue(0)), SortFrom(<<>>, all_results, 1), q, 1)
    IN  [rows |-> acc.rows, printed |-> "table", up |-> acc.up_count,
         total |-> Len(all_results), down |-> acc.down_count]

NoSummary == [printed |-> "nothing yet"]

\* the retries setting of a modelled run: 'retries = 2' or 'retries = 2.5'
RunRetries == {IntValue(2), FloatValue(25, 1)}

\* what the two subprocess.run calls of a modelled probe do: DOWN then OK,
\* OK at once, DOWN twice, no ping command
SampleRuns ==
    { <<Outcome("none", 1, <<>>), Outcome("none", 0, OutTime5)>>,
      <<Outcome("none", 0, OutTime15), Outcome("none", 0, OutTime5)>>,
      <<Outcome("none", 1, <<>>), Outcome("none", 0, OutNoUnit)>>,
      <<Outcome("FileNotFoundError", 0, <<>>), Outcome("none", 0, OutTime5)>> }

\* what the four queries of a modelled check_site do: all answer; PIHOLE1 times
\* out and PIHOLE2 answers; no resolver has a record; an error that is not caught
Addr4 == <<"1", ".", "1">>
Addr6 == <<":", ":", "1">>
SampleQueries ==
    { <<Query("none", Addr4), Query("none", Addr6), Query("none", Addr4), Query("none", Addr6)>>,
      <<Query("Timeout", Dash), Query("Timeout", Dash), Query("none", Addr4), Query("NoAnswer", Dash)>>,
      <<Query("NXDOMAIN", Dash), Query("NXDOMAIN", Dash), Query("NXDOMAIN", Dash), Query("NXDOMAIN", Dash)>>,
      <<Query("none", Addr4), Query("OSError", Dash), Query("none", Addr4), Query("none", Addr6)>> }

\* the hosts of a modelled check-docker run with their containers, in the order
\* of containers_by_host
HostEntry(host, containers) == [host |-> host, containers |-> containers]
SampleHosts ==
    { <<HostEntry(HostLocal, <<NameWeb, NameDb>>)>>,
      <<HostEntry(HostNas, <<NameDb>>), HostEntry(HostLocal, <<NameWeb, NameDb>>)>>,
      <<HostEntry(HostLocal, <<NameWeb, NameApp>>), HostEntry(HostNas, <<NameDb>>)>> }

\* the tools whose work items are servers: the library and check-servers.py
PingTools == {"servers", "standalone"}

\* the ways the probe of work item e can end
ProbeOutcomes(t, e, retries) ==
    IF t \in PingTools THEN {PingServer(e, retries, outs) : outs \in SampleRuns}
    ELSE IF t = "dns" THEN {CheckSite(e, q) : q \in SampleQueries}
    ELSE {CheckHostContainers(e.host, e.containers, ep) : ep \in SampleEndpoints}

\* the sites of a modelled check-dns run: the first ones of WEBSITES
Sites == SubSeq(WEBSITES, 1, IF MaxEntities < Len(WEBSITES) THEN MaxEntities ELSE Len(WEBSITES))

RunIdle ==
    /\ rpc = "idle" /\ tool = "servers" /\ entities = <<>> /\ future = <<>>
    /\ collected = {} /\ current = 0 /\ results = EmptyMap /\ reported = <<>>
    /\ progress = 0
    /\ quiet = FALSE /\ rows = <<>> /\ summary = NoSummary

\* run_pings(servers_to_check, settings, console) is called with the filtered,
\* non-empty list, or check-dns main starts
RunStart ==
    /\ rpc = "submit" /\ tool \in {"servers", "dns", "standalone", "docker"}
    /\ IF tool \in PingTools
       THEN /\ entities \in ListsUpTo(SampleServers, MaxEntities)
            /\ settings \in {[DefaultSettings EXCEPT !.retries = r] : r \in RunRetries}
       ELSE /\ entities \in (IF tool = "dns" THEN {Sites} ELSE SampleHosts)
            /\ settings = DefaultSettings
    /\ quiet = FALSE
    /\ future = [i \in 1..Len(entities) |-> NotSubmitted]
    /\ collected = {} /\ current = 0 /\ results = EmptyMap /\ reported = <<>>
    /\ progress = 0
    /\ rows = <<>> /\ summary = NoSummary
    /\ cpc = "done" /\ parser = (IF tool = "standalone" THEN "standalone" ELSE "lib")
    /\ userExists = TRUE /\ sysExists = FALSE
    /\ configFile = "user" /\ text = <<>>
    /\ servers = <<>> /\ current_section = NoSection /\ args = NoArgs
    /\ servers_to_check = (IF tool \in PingTools THEN entities ELSE <<>>)
    /\ configExc = "none"

\* executor.submit(probe, item) for the next work item of the dict comprehension
Submit ==
    /\ rpc = "submit"
    /\ LET i == NextToSubmit(future)
       IN  /\ i # 0
           /\ future' = [future EXCEPT ![i] = Running]
           /\ rpc' = IF NextToSubmit(future') = 0 THEN "collect" ELSE "submit"
    /\ UNCHANGED <<tool, entities, collected, current, results, reported, progress,
                   quiet, rows, summary>>
    /\ UNCHANGED <<configVars, pingVars, probeVars, editVars>>

\* the mutant of ProbeFinish: the worker thread writes what its probe returned
\* into the result map itself
ProbeFinishWrites(i) ==
    /\ future[i].state = "running"
    /\ \E o \in ProbeOutcomes(tool, entities[i], settings.retries) :
          /\ future' = [future EXCEPT ![i] = Finished(o)]
          /\ results' = IF o.kind = "return" /\ tool \in PingTools
                        THEN Put(results, entities[i].name, o.result)
                        ELSE results
    /\ UNCHANGED <<rpc, tool, entities, collected, current, reported,
                   progress, quiet, rows, summary>>
    /\ UNCHANGED <<configVars, pingVars, probeVars, editVars>>

\* a worker thread ends the probe of work item i: it returns or it raises
ProbeFinish(i) ==
    /\ future[i].state = "running"
    /\ \E o \in ProbeOutcomes(tool, entities[i], settings.retries) :
          future' = [future EXCEPT ![i] = Finished(o)]
    /\ UNCHANGED <<rpc, tool, entities, collected, current, results, reported,
                   progress, quiet, rows, summary>>
    /\ UNCHANGED <<configVars, pingVars, probeVars, editVars>>

\* as_completed yields the finished future of work item i, and the body of the
\* loop runs for it
Collect(i) ==
    /\ rpc = "collect"
    /\ future[i].state = "finished" /\ i \notin collected
    /\ LET acc == Merged(results, reported)
           o   == future[i].outcome
           nx  == CASE tool = "servers"    -> CollectPing(acc, entities[i], o)
                    [] tool = "dns"        -> CollectSite(acc, entities[i], o)
                    [] tool = "standalone" -> CollectStandalone(acc, entities[i], o)
                    [] tool = "docker"     -> CollectDocker(acc, entities[i].host, o)
       IN  /\ results' = nx.results
           /\ reported' = nx.reported
           /\ configExc' = nx.raised
           /\ rpc' = IF nx.raised = "none" THEN rpc ELSE "aborted"
           /\ progress' = IF nx.raised = "none" THEN progress + 1 ELSE progress
    /\ collected' = collected \cup {i}
    /\ current' = i
    /\ UNCHANGED <<tool, entities, future, quiet, rows, summary>>
    /\ UNCHANGED <<cpc, parser, userExists, sysExists, configFile, text, settings,
                   servers, current_section, args, servers_to_check>>
    /\ UNCHANGED <<pingVars, probeVars, editVars>>

\* as_completed is exhausted: the executor is shut down and the results are
\* handed to the render
ReturnResults ==
    /\ rpc = "collect"
    /\ collected = DOMAIN future
    /\ rpc' = "render"
    /\ UNCHANGED <<tool, entities, future, collected, current, results, reported,
                   progress, quiet, rows, summary>>
    /\ UNCHANGED <<configVars, pingVars, probeVars, editVars>>

\* display_results, or the table and STATS line of check-servers.py or of
\* check-docker.py, with or without -q, or the table and STATS lines of
\* check-dns main (which has no -q)
Display ==
    /\ rpc = "render"
    /\ \E q \in (IF tool = "dns" THEN {FALSE} ELSE BOOLEAN) :
          LET d == CASE tool = "servers"    -> DisplayResults(entities, results, q)
                     [] tool = "dns"        -> DisplayDns(entities, results)
                     [] tool = "standalone" -> DisplayStandalone(entities, results, q)
                     [] tool = "docker"     -> DisplayDocker(results, q)
          IN  /\ quiet' = q
              /\ rows' = d.rows
              /\ summary' = d
    /\ rpc' = "done"
    /\ UNCHANGED <<tool, entities, future, collected, current, results, reported,
                   progress>>
    /\ UNCHANGED <<configVars, pingVars, probeVars, editVars>>

-----------------------------------------------------------------------------
(* The configuration parser of check-docker.py.                              *)

\* s.startswith(p)
HasPrefix(s, p) == Len(s) >= Len(p) /\ SubSeq(s, 1, Len(p)) = p

\* 'host='
HostMarker == <<"h", "o", "s", "t", "=">>

\* current_host = None
NoHost == <<"N", "o", "n", "e", "!">>

\* the state of parse_config between two lines: containers_by_host as the list
\* of its items in insertion order, and current_host
DockerParseState(containers_by_host, current_host) ==
    [containers_by_host |-> containers_by_host, current_host |-> current_host]

\* host in containers_by_host
HasHost(containers_by_host, host) ==
    \E k \in DOMAIN containers_by_host : containers_by_host[k].host = host

\* containers_by_host[host].append(line)
AppendContainer(containers_by_host, host, line) ==
    [k \in DOMAIN containers_by_host |->
        IF containers_by_host[k].host = host
        THEN HostEntry(host, Append(containers_by_host[k].containers, line))
        ELSE containers_by_host[k]]

\* one iteration of the loop of check-docker.py's parse_config
ParseDockerLine(st, raw) ==
    LET line == Strip(raw)
    IN  IF line = <<>> \/ StartsWith(line, "#") THEN st
        ELSE IF HasPrefix(line, HostMarker)
        THEN LET current_host == Strip(SplitOnce(line, "=")[2])
             IN  DockerParseState(
                     IF HasHost(st.containers_by_host, current_host)
                     THEN st.containers_by_host
                     ELSE Append(st.containers_by_host, HostEntry(current_host, <<>>)),
                     current_host)
        ELSE IF st.current_host # NoHost /\ st.current_host # <<>>
        THEN DockerParseState(
                 AppendContainer(st.containers_by_host, st.current_host, line),
                 st.current_host)
        ELSE st

RECURSIVE ParseDockerLines(_, _, _)
\* the loop of parse_config over the lines of the file, from the k-th line on
ParseDockerLines(st, lines, k) ==
    IF k > Len(lines) THEN st
    ELSE ParseDockerLines(ParseDockerLine(st, lines[k]), lines, k + 1)

\* parse_config(config_file) of check-docker.py for a file of these lines
ParseDockerConfig(lines) ==
    ParseDockerLines(DockerParseState(<<>>, NoHost), lines, 1).containers_by_host

\* the lines a modelled check-docker configuration is made of: three markers
\* (one with blanks around the host, one without a host), two containers, a
\* comment, a blank line
DockerLines ==
    { <<"h", "o", "s", "t", "=", "n", "a", "s">>,
      <<" ", "h", "o", "s", "t", "=", " ", "p", "i", " ">>,
      <<"h", "o", "s", "t", "=">>,
      <<"w", "e", "b">>,
      <<" ", "d", "b">>,
      <<"#", " ", "w", "e", "b">>,
      <<" ">> }

-----------------------------------------------------------------------------
(* One call of a probe of check-dns, check-docker or the check_docker       *)
(* library, or of the parser of check-docker, for every input of the sample *)
(* sets.                                                                    *)

PIHOLE1 == <<"1", "0", ".", "0", ".", "0", ".", "5">>
PIHOLE2 == <<"1", "0", ".", "0", ".", "0", ".", "3">>

\* what one resolver.resolve can do: answer with a first record, raise one of
\* the errors that get_dns_records catches, raise another error
QueryOutcomes(record) ==
    {Query("none", record)} \cup {Query(e, Dash) : e \in CaughtDnsErrors}
        \cup {Query("OSError", Dash)}

\* the records PIHOLE2 answers with, when they differ from those of PIHOLE1
Addr4Other == <<"2", ".", "2">>
Addr6Other == <<":", ":", "2">>

\* what the four queries of one check_site can do
SiteQueries ==
    { <<a1, b1, a2, b2>> : a1 \in QueryOutcomes(Addr4), b1 \in QueryOutcomes(Addr6),
                           a2 \in QueryOutcomes(Addr4Other), b2 \in QueryOutcomes(Addr6Other) }

ProbeIdle ==
    fpc = "idle" /\ fn = "none" /\ fnArgs = <<>> /\ fnEnv = <<>> /\ fnOutcome = Continue

\* a probe is called with arguments and surroundings of the sample sets
ProbeStart ==
    /\ fpc = "call" /\ fnOutcome = Continue
    /\ \/ /\ fn = "get_dns_records"
          /\ fnArgs \in [website : {WEBSITES[1]}, server : {PIHOLE1, PIHOLE2}]
          /\ fnEnv \in [a : QueryOutcomes(Addr4), aaaa : QueryOutcomes(Addr6)]
       \/ /\ fn = "check_site"
          /\ fnArgs \in [site : {WEBSITES[1]}]
          /\ fnEnv \in [q : SiteQueries]
       \/ /\ fn = "check_host_containers"
          /\ fnArgs \in [host : {HostLocal, HostNas}, containers : SampleNameLists]
          /\ fnEnv \in SampleEndpoints
       \/ /\ fn = "get_container_details"
          /\ fnArgs \in [container_names : SampleNameLists]
          /\ fnEnv \in SampleEndpoints
       \/ /\ fn = "parse_config"
          /\ fnArgs \in [lines : {<<>>} \cup ListsUpTo(DockerLines, MaxLines)]
          /\ fnEnv = <<>>

\* get_dns_records(website, server) runs
CallGetDnsRecords ==
    /\ fpc = "call" /\ fn = "get_dns_records"
    /\ fnOutcome' = GetDnsRecords(fnEnv.a, fnEnv.aaaa)
    /\ fpc' = "done"
    /\ UNCHANGED <<fn, fnArgs, fnEnv>>
    /\ UNCHANGED <<configVars, pingVars, runVars, editVars>>

\* check_site(site) runs
CallCheckSite ==
    /\ fpc = "call" /\ fn = "check_site"
    /\ fnOutcome' = CheckSite(fnArgs.site, fnEnv.q)
    /\ fpc' = "done"
    /\ UNCHANGED <<fn, fnArgs, fnEnv>>
    /\ UNCHANGED <<configVars, pingVars, runVars, editVars>>

\* check_host_containers(host, containers) runs
CallCheckHostContainers ==
    /\ fpc = "call" /\ fn = "check_host_containers"
    /\ fnOutcome' = CheckHostContainers(fnArgs.host, fnArgs.containers, fnEnv)
    /\ fpc' = "done"
    /\ UNCHANGED <<fn, fnArgs, fnEnv>>
    /\ UNCHANGED <<configVars, pingVars, runVars, editVars>>

\* get_container_details(container_names) runs
CallGetContainerDetails ==
    /\ fpc = "call" /\ fn = "get_container_details"
    /\ fnOutcome' = GetContainerDetails(fnArgs.container_names, fnEnv)
    /\ fpc' = "done"
    /\ UNCHANGED <<fn, fnArgs, fnEnv>>
    /\ UNCHANGED <<configVars, pingVars, runVars, editVars>>

\* parse_config(config_file) of check-docker.py runs
CallParseDockerConfig ==
    /\ fpc = "call" /\ fn = "parse_config"
    /\ fnOutcome' = [kind |-> "return", exc |-> "none",
                     result |-> ParseDockerConfig(fnArgs.lines)]
    /\ fpc' = "done"
    /\ UNCHANGED <<fn, fnArgs, fnEnv>>
    /\ UNCHANGED <<configVars, pingVars, runVars, editVars>>

-----------------------------------------------------------------------------
(* The configuration commands of the library: add_server_to_config and       *)
(* remove_server_from_config, as invocations that read and write the files.  *)

\* a file of the file system: whether it exists, and its text
File(exists, content) == [exists |-> exists, content |-> content]

\* sub in s: the positions at which sub occurs in s
Occurrences(sub, s) ==
    {p \in 1..(Len(s) - Len(sub) + 1) : SubSeq(s, p, p + Len(sub) - 1) = sub}
In(sub, s) == sub = <<>> \/ Occurrences(sub, s) # {}

\* s.replace(old, new, 1) for a non-empty old
ReplaceFirst(s, old, new) ==
    IF ~In(old, s) THEN s
    ELSE LET p == SetMin(Occurrences(old, s))
         IN  Slice(s, 1, p - 1) \o new \o Slice(s, p + Len(old), Len(s))

\* f"{s:<n}": s with spaces behind it up to the width n
PadRight(s, n) == s \o [k \in 1..(IF Len(s) < n THEN n - Len(s) ELSE 0) |-> " "]

RECURSIVE ReadLines(_)
\* f.readlines(), and the lines a loop over f gets: each with its newline, the
\* last one without if the text does not end with one
ReadLines(s) ==
    IF s = <<>> THEN <<>>
    ELSE LET nl == {i \in 1..Len(s) : s[i] = "\n"}
         IN  IF nl = {} THEN <<s>>
             ELSE <<SubSeq(s, 1, SetMin(nl))>> \o ReadLines(Slice(s, SetMin(nl) + 1, Len(s)))

RECURSIVE ParseLines(_, _, _)
\* the loop of parse_config over the lines of the file, from the k-th line on
ParseLines(st, lines, k) ==
    IF k > Len(lines) THEN st
    ELSE ParseLines(ParseLineLib(st, lines[k]), lines, k + 1)

\* parse_config(config_file) of the library for a file of this text
ParseConfig(content) == ParseLines(ParseStart, ReadLines(content), 1)

\* f.write(data) at position 0 of a file that holds old: what is behind the
\* written text stays (r+ does not truncate, and w has truncated at open)
WriteAtStart(old, data) == data \o Slice(old, Len(data) + 1, Len(old))

\* f"[{server_type}]"
SectionHeader(server_type) == <<"[">> \o server_type \o <<"]">>

\* f"{ip:<15} {name}\n"
NewEntry(ip, name) == PadRight(ip, 15) \o <<" ">> \o name \o <<"\n">>

\* the mutant of AddEntry: the text that was read is not part of what is written
AddEntryNoContent(content, ip, name, server_type) ==
    SectionHeader(server_type) \o <<"\n">> \o NewEntry(ip, name)

\* the text add_server_to_config writes for the text it read
AddEntry(content, ip, name, server_type) ==
    LET section_header == SectionHeader(server_type)
    IN  IF In(section_header, content)
        THEN ReplaceFirst(content, section_header,
                          section_header \o <<"\n">> \o NewEntry(ip, name))
        ELSE content \o <<"\n">> \o section_header \o <<"\n">> \o NewEntry(ip, name)

\* the mutant of KeepsLine: a line goes when it holds the address
KeepsLineByAddress(server_to_remove, line) == ~In(server_to_remove.ip, line)

\* not (server_to_remove.ip in line and server_to_remove.name in line)
KeepsLine(server_to_remove, line) ==
    ~(In(server_to_remove.ip, line) /\ In(server_to_remove.name, line))

RECURSIVE Concat(_)
\* the text of the lines written one after the other
Concat(lines) == IF lines = <<>> THEN <<>> ELSE Head(lines) \o Concat(Tail(lines))

\* what remove_server_from_config writes for the lines it read
KeptText(lines, server_to_remove) ==
    Concat(SelectSeq(lines, LAMBDA line : KeepsLine(server_to_remove, line)))

\* the mutant of ReadChoice: a number above the list is taken as its last entry
ReadChoiceClamped(input, n) ==
    LET v == ParseInt(input)
    IN  IF v.kind = "ValueError" THEN [out |-> "invalid", choice |-> 0]
        ELSE IF v.mant = 0 THEN [out |-> "cancelled", choice |-> 0]
        ELSE IF v.mant < 1 THEN [out |-> "invalid", choice |-> 0]
        ELSE [out |-> "chosen", choice |-> IF v.mant > n THEN n ELSE v.mant]

\* the try block of remove_server_from_config for the text the user typed and
\* a list of n servers: int(), 0 cancels, a number outside 1..n is invalid
ReadChoice(input, n) ==
    LET v == ParseInt(input)
    IN  IF v.kind = "ValueError" THEN [out |-> "invalid", choice |-> 0]
        ELSE IF v.mant = 0 THEN [out |-> "cancelled", choice |-> 0]
        ELSE IF ~(1 <= v.mant /\ v.mant <= n) THEN [out |-> "invalid", choice |-> 0]
        ELSE [out |-> "chosen", choice |-> v.mant]

\* one invocation of the tool: its command and arguments (ip, name, type of
\* add; input is what the user types in remove), where it is (pc), its local
\* variables, how it ended (out), and whether no other invocation was between
\* its first and its last step whenever it took a step (alone)
Invocation(cmd, ip, name, type, input) ==
    [cmd |-> cmd, ip |-> ip, name |-> name, type |-> type, input |-> input,
     pc |-> "start", config_file |-> "unset", content |-> <<>>, servers |-> <<>>,
     choice |-> 0, lines |-> <<>>, out |-> "none", alone |-> TRUE]

AddCommand(ip, name, type) == Invocation("add", ip, name, type, <<>>)
RemoveCommand(input) == Invocation("remove", <<>>, <<>>, <<>>, input)

\* the invocation i after a step that leaves it as r
Stepped(i, r) ==
    [inv EXCEPT ![i] = [r EXCEPT !.alone =
        @ /\ \A j \in DOMAIN inv \ {i} : inv[j].pc \in {"start", "done"}]]

\* the mutant of AddLocate: the system-wide file is written when it is the one found
AddLocateAnyFile(i) ==
    /\ inv[i].cmd = "add" /\ inv[i].pc = "start"
    /\ LET found == FindConfigFile(userFile.exists, sysFile.exists)
       IN  /\ userFile' = IF found = "none" THEN File(TRUE, <<>>) ELSE userFile
           /\ inv' = Stepped(i, [inv[i] EXCEPT
                        !.config_file = IF found = "none" THEN "user" ELSE found,
                        !.pc = "read"])
    /\ UNCHANGED sysFile
    /\ UNCHANGED <<configVars, pingVars, runVars, probeVars>>

\* add_server_to_config up to its open: find_config_file, the user's file is
\* created when there is none, the system-wide file is refused
AddLocate(i) ==
    /\ inv[i].cmd = "add" /\ inv[i].pc = "start"
    /\ LET found == FindConfigFile(userFile.exists, sysFile.exists)
       IN  /\ userFile' = IF found = "none" THEN File(TRUE, <<>>) ELSE userFile
           /\ inv' = Stepped(i, [inv[i] EXCEPT
                        !.config_file = IF found = "none" THEN "user" ELSE found,
                        !.pc = IF found = "system" THEN "done" ELSE "read",
                        !.out = IF found = "system" THEN "refused" ELSE "none"])
    /\ UNCHANGED sysFile
    /\ UNCHANGED <<configVars, pingVars, runVars, probeVars>>

\* the file an invocation has open
Opened(i) == IF inv[i].config_file = "system" THEN sysFile ELSE userFile

\* the files after the invocation i has written its file
Written(i, content) ==
    /\ userFile' = IF inv[i].config_file = "system" THEN userFile
                   ELSE File(TRUE, content)
    /\ sysFile' = IF inv[i].config_file = "system" THEN File(TRUE, content)
                  ELSE sysFile

\* open(config_file, "r+") and content = f.read()
AddRead(i) ==
    /\ inv[i].cmd = "add" /\ inv[i].pc = "read"
    /\ inv' = Stepped(i, [inv[i] EXCEPT !.content = Opened(i).content, !.pc = "write"])
    /\ UNCHANGED <<userFile, sysFile>>
    /\ UNCHANGED <<configVars, pingVars, runVars, probeVars>>

\* the new content is built, f.seek(0), f.write(content), and the file is closed
AddWrite(i) ==
    /\ inv[i].cmd = "add" /\ inv[i].pc = "write"
    /\ LET content == AddEntry(inv[i].content, inv[i].ip, inv[i].name, inv[i].type)
       IN  /\ Written(i, WriteAtStart(Opened(i).content, content))
           /\ inv' = Stepped(i, [inv[i] EXCEPT !.content = content, !.pc = "done",
                                               !.out = "success"])
    /\ UNCHANGED <<configVars, pingVars, runVars, probeVars>>

\* remove_server_from_config up to parse_config: no file, or the system-wide
\* file, end it
RemoveLocate(i) ==
    /\ inv[i].cmd = "remove" /\ inv[i].pc = "start"
    /\ LET found == FindConfigFile(userFile.exists, sysFile.exists)
       IN  inv' = Stepped(i, [inv[i] EXCEPT
                     !.config_file = found,
                     !.pc = IF found = "user" THEN "parse" ELSE "done",
                     !.out = CASE found = "none" -> "nofile"
                               [] found = "system" -> "refused"
                               [] OTHER -> "none"])
    /\ UNCHANGED <<userFile, sysFile>>
    /\ UNCHANGED <<configVars, pingVars, runVars, probeVars>>

\* _, servers = parse_config(config_file); no server ends the command
RemoveParse(i) ==
    /\ inv[i].cmd = "remove" /\ inv[i].pc = "parse"
    /\ LET parsed == ParseConfig(Opened(i).content).servers
       IN  inv' = Stepped(i, [inv[i] EXCEPT
                     !.servers = parsed,
                     !.pc = IF parsed = <<>> THEN "done" ELSE "choose",
                     !.out = IF parsed = <<>> THEN "noservers" ELSE "none"])
    /\ UNCHANGED <<userFile, sysFile>>
    /\ UNCHANGED <<configVars, pingVars, runVars, probeVars>>

\* the list is printed and the selection is read
RemoveChoose(i) ==
    /\ inv[i].cmd = "remove" /\ inv[i].pc = "choose"
    /\ LET c == ReadChoice(inv[i].input, Len(inv[i].servers))
       IN  inv' = Stepped(i, [inv[i] EXCEPT
                     !.choice = c.choice,
                     !.pc = IF c.out = "chosen" THEN "readlines" ELSE "done",
                     !.out = IF c.out = "chosen" THEN "none" ELSE c.out])
    /\ UNCHANGED <<userFile, sysFile>>
    /\ UNCHANGED <<configVars, pingVars, runVars, probeVars>>

\* with open(config_file, "r") as f: lines = f.readlines()
RemoveReadLines(i) ==
    /\ inv[i].cmd = "remove" /\ inv[i].pc = "readlines"
    /\ inv' = Stepped(i, [inv[i] EXCEPT !.lines = ReadLines(Opened(i).content),
                                        !.pc = "truncate"])
    /\ UNCHANGED <<userFile, sysFile>>
    /\ UNCHANGED <<configVars, pingVars, runVars, probeVars>>

\* open(config_file, "w") truncates the file
RemoveTruncate(i) ==
    /\ inv[i].cmd = "remove" /\ inv[i].pc = "truncate"
    /\ Written(i, <<>>)
    /\ inv' = Stepped(i, [inv[i] EXCEPT !.pc = "write"])
    /\ UNCHANGED <<configVars, pingVars, runVars, probeVars>>

\* the lines that are kept are written, and the file is closed
RemoveWrite(i) ==
    /\ inv[i].cmd = "remove" /\ inv[i].pc = "write"
    /\ Written(i, WriteAtStart(Opened(i).content,
                               KeptText(inv[i].lines, inv[i].servers[inv[i].choice])))
    /\ inv' = Stepped(i, [inv[i] EXCEPT !.pc = "done", !.out = "success"])
    /\ UNCHANGED <<configVars, pingVars, runVars, probeVars>>

\* the lines a modelled configuration file is made of: the two headers, a
\* comment that names a header, three servers (the text of the second holds
\* the address and the name of the first; the third has no newline), a setting
FileLines ==
    { <<"[", "l", "o", "c", "a", "l", "]", "\n">>,
      <<"[", "r", "e", "m", "o", "t", "e", "]", "\n">>,
      <<"#", " ", "[", "l", "o", "c", "a", "l", "]", "\n">>,
      <<"1", " ", "a", "\n">>,
      <<"1", "1", " ", "a", "b", "\n">>,
      <<"2", " ", "b">>,
      <<"t", "i", "m", "e", "o", "u", "t", "=", "1", "\n">> }

\* the texts of at most n lines
RECURSIVE TextsUpTo(_)
TextsUpTo(n) ==
    IF n = 0 THEN {<<>>}
    ELSE LET shorter == TextsUpTo(n - 1)
         IN  shorter \cup {t \o l : t \in shorter, l \in FileLines}

\* the system-wide file of a modelled system
SystemText == <<"[", "l", "o", "c", "a", "l", "]", "\n", "9", " ", "z", "\n">>

\* the commands of a modelled invocation
SampleAdds ==
    { AddCommand(<<"1", "1">>, <<"a", "b">>, KindLocal),
      AddCommand(<<"1", "1">>, <<"a", "b">>, KindRemote),
      AddCommand(<<"3">>, <<"c", "=", "d">>, KindLocal),
      AddCommand(<<"3">>, <<"c">>, KindRemote) }
SampleRemoves ==
    { RemoveCommand(input) :
        input \in {<<"0">>, <<"1">>, <<"2">>, <<"4">>, <<"x">>, <<>>, <<"-", "1">>, <<" ", "1">>} }

EditIdle ==
    /\ userFile = File(FALSE, <<>>) /\ sysFile = File(FALSE, <<>>) /\ inv = <<>>

\* one invocation on a system with or without each of the two files
EditStart ==
    /\ \/ userFile = File(FALSE, <<>>)
       \/ \E t \in TextsUpTo(MaxFileLines) : userFile = File(TRUE, t)
    /\ sysFile \in {File(FALSE, <<>>), File(TRUE, SystemText)}
    /\ \E c \in SampleAdds \cup SampleRemoves : inv = <<c>>

\* the texts of the user's file at the start of two invocations
RaceTexts ==
    { <<"[", "l", "o", "c", "a", "l", "]", "\n", "1", " ", "a", "\n", "2", " ", "b", "\n">>,
      <<"[", "r", "e", "m", "o", "t", "e", "]", "\n", "1", " ", "a", "\n">> }

\* two invocations at the same time on the user's file
RaceStart ==
    /\ \E t \in RaceTexts : userFile = File(TRUE, t)
    /\ sysFile = File(FALSE, <<>>)
    /\ \E c, d \in SampleAdds \cup {RemoveCommand(<<"1">>), RemoveCommand(<<"2">>)} :
          inv = <<c, d>>

-----------------------------------------------------------------------------
(* The specifications. *)

\* parse_config, line by line
InitConfig == ParseStartState /\ PingIdle /\ RunIdle /\ ProbeIdle /\ EditIdle
NextConfig == OpenFails \/ ReadLine \/ EndOfFile
SpecConfig == InitConfig /\ [][NextConfig]_vars

\* find_config_file and the -l/-r filter, each applied to every input
InitSelect == (FindStart \/ FilterStart) /\ PingIdle /\ RunIdle /\ ProbeIdle /\ EditIdle
NextSelect == FindConfig \/ Filter
SpecSelect == InitSelect /\ [][NextSelect]_vars

InitPing == ConfigIdle /\ PingStart /\ RunIdle /\ ProbeIdle /\ EditIdle
NextPing == Attempt \/ Exhausted
SpecPing == InitPing /\ [][NextPing]_vars

InitProbe == ConfigIdle /\ PingIdle /\ RunIdle /\ ProbeStart /\ EditIdle
NextProbe ==
    \/ CallGetDnsRecords \/ CallCheckSite \/ CallCheckHostContainers
    \/ CallGetContainerDetails \/ CallParseDockerConfig
SpecProbe == InitProbe /\ [][NextProbe]_vars

\* one add or remove command, from the call to its return
InitEdit == ConfigIdle /\ PingIdle /\ RunIdle /\ ProbeIdle /\ EditStart
NextEdit ==
    \/ \E i \in DOMAIN inv : AddLocate(i)
    \/ \E i \in DOMAIN inv : AddRead(i)
    \/ \E i \in DOMAIN inv : AddWrite(i)
    \/ \E i \in DOMAIN inv : RemoveLocate(i)
    \/ \E i \in DOMAIN inv : RemoveParse(i)
    \/ \E i \in DOMAIN inv : RemoveChoose(i)
    \/ \E i \in DOMAIN inv : RemoveReadLines(i)
    \/ \E i \in DOMAIN inv : RemoveTruncate(i)
    \/ \E i \in DOMAIN inv : RemoveWrite(i)
SpecEdit == InitEdit /\ [][NextEdit]_vars

\* two commands started at the same time: their steps interleave in any order
InitEditRace == ConfigIdle /\ PingIdle /\ RunIdle /\ ProbeIdle /\ RaceStart
SpecEditRace == InitEditRace /\ [][NextEdit]_vars

InitRun == RunStart /\ PingIdle /\ ProbeIdle /\ EditIdle
NextRun ==
    \/ Submit
    \/ \E i \in DOMAIN future : ProbeFinish(i)
    \/ \E i \in DOMAIN future : Collect(i)
    \/ ReturnResults
    \/ Display
SpecRun == InitRun /\ [][NextRun]_vars

\* every way a probe of the modelled runs can end, by the kind of tool
AllPingOutcomes ==
    UNION {ProbeOutcomes("servers", e, r) : e \in SampleServers, r \in RunRetries}
AllSiteOutcomes ==
    UNION {ProbeOutcomes("dns", Sites[k], IntValue(0)) : k \in DOMAIN Sites}
AllHostOutcomes ==
    UNION UNION {{ProbeOutcomes("docker", hosts[k], IntValue(0)) : k \in DOMAIN hosts} :
                    hosts \in SampleHosts}
AllProbeOutcomes(t) ==
    IF t \in PingTools THEN AllPingOutcomes
    ELSE IF t = "dns" THEN AllSiteOutcomes ELSE AllHostOutcomes

\* the probe of work item i, running in its worker thread, ends in some way
ProbeTerminates(i) ==
    /\ future[i].state = "running"
    /\ \E o \in AllProbeOutcomes(tool) : future' = [future EXCEPT ![i] = Finished(o)]
    /\ UNCHANGED <<rpc, tool, entities, collected, current, results, reported,
                   progress, quiet, rows, summary>>
    /\ UNCHANGED <<configVars, pingVars, probeVars, editVars>>

\* the run when every thread keeps running: a probe that runs terminates, and
\* the dispatching thread, as long as it is in the executor's block, takes the
\* step it is at
SpecRunFair ==
    /\ SpecRun
    /\ WF_vars(Submit)
    /\ WF_vars(\E i \in DOMAIN future : ProbeTerminates(i))
    /\ WF_vars(\E i \in DOMAIN future : Collect(i))
    /\ WF_vars(ReturnResults)

-----------------------------------------------------------------------------
(* Properties of the configuration: C5 .. C10. *)

\* the line that a ReadLine step has just read, stripped
LastLine == Strip(text'[Len(text')])
\* the step is one iteration of parse_config's loop
IsReadStep == cpc = "parse" /\ Len(text') = Len(text) + 1

\* the classes of a stripped line, by the text of the line alone
IsSkipped(line) == line = <<>> \/ line[1] = "#"
IsHeader(line)  == ~IsSkipped(line) /\ line[1] = "[" /\ line[Len(line)] = "]"
IsAssign(line)  == ~IsSkipped(line) /\ ~IsHeader(line) /\ Contains(line, "=")
IsOther(line)   == ~IsSkipped(line) /\ ~IsHeader(line) /\ ~Contains(line, "=")
HeaderName(line) == Slice(line, 2, Len(line) - 1)

\* an assignment to one of the two settings: its key and the text of its value
IsSettingLine(line) ==
    IsAssign(line) /\ Strip(SplitOnce(line, "=")[1]) \in {KeyTimeout, KeyRetries}
SettingOf(se, line) ==
    IF Strip(SplitOnce(line, "=")[1]) = KeyTimeout THEN se.timeout ELSE se.retries
OtherSettingOf(se, line) ==
    IF Strip(SplitOnce(line, "=")[1]) = KeyTimeout THEN se.retries ELSE se.timeout
ValueText(line) == Strip(SplitOnce(line, "=")[2])

\* C5: in both parsers, a setting assignment whose value is no number leaves the
\* setting as it was and does not abort parsing, and one whose value is a number
\* overwrites the setting with that number; the other setting is never touched.
C5_SettingsLenient ==
    [][(IsReadStep /\ IsSettingLine(LastLine)) =>
          /\ cpc' = "parse"
          /\ OtherSettingOf(settings', LastLine) = OtherSettingOf(settings, LastLine)
          /\ IF ParseNumber(ValueText(LastLine)).kind = "ValueError"
             THEN SettingOf(settings', LastLine) = SettingOf(settings, LastLine)
             ELSE SettingOf(settings', LastLine) = ParseNumber(ValueText(LastLine))]_vars

\* C6: after parse_config, settings['retries'] is an int and settings['timeout']
\* is a number.
C6_SettingTypes ==
    cpc = "filter" =>
        /\ settings.retries.kind = "int"
        /\ settings.timeout.kind \in {"int", "float"}

\* the section a line of the file stands under: the name of the last header
\* before it, NoSection before the first header
SectionAt(t, i) ==
    LET hs == {j \in 1..(i - 1) : IsHeader(Strip(t[j]))}
    IN  IF hs = {} THEN NoSection ELSE HeaderName(Strip(t[SetMax(hs)]))

\* the well-formed entity lines of a file: address, whitespace, name, under a
\* [local] or [remote] header
IsEntityLine(t, i) ==
    /\ IsOther(Strip(t[i]))
    /\ Len(SplitWs(Strip(t[i]))) = 2
    /\ SectionAt(t, i) \in {KindLocal, KindRemote}
EntityLines(t) == {i \in 1..Len(t) : IsEntityLine(t, i)}

\* the k-th smallest element of a set of numbers
Nth(S, k) == CHOOSE i \in S : Cardinality({j \in S : j < i}) = k - 1

\* C7: a file with N well-formed entity lines under [local] and [remote] headers
\* parses to exactly N servers, in file order, each with the address and name of
\* its line and the kind of the section it stands under.
C7_EntitiesInFileOrder ==
    cpc = "filter" =>
        /\ Len(servers) = Cardinality(EntityLines(text))
        /\ \A k \in 1..Len(servers) :
              LET i == Nth(EntityLines(text), k)
              IN  servers[k] = Server(SplitWs(Strip(text[i]))[1],
                                      SplitWs(Strip(text[i]))[2],
                                      SectionAt(text, i))

\* a file whose section repeats: both servers of the two [local] blocks are parsed
C7_Witness ==
    /\ cpc = "filter" /\ Len(text) = 4 /\ Len(servers) = 2
    /\ Strip(text[1]) = Strip(text[3]) /\ IsHeader(Strip(text[1]))
    /\ servers[1].name # servers[2].name

\* C8: the classes of a line in priority order: a blank or '#' line changes
\* nothing; a [section] line sets the current section and nothing else; a line
\* with '=' never adds a server and never changes the section; any other line
\* adds one server (address, name, current section) when the section is local or
\* remote and the line has two tokens, and changes nothing otherwise; none of
\* the last two raises.
C8_LineClasses ==
    [][IsReadStep =>
          /\ IsSkipped(LastLine) =>
                /\ UNCHANGED <<settings, servers, current_section>>
                /\ cpc' = "parse"
          /\ IsHeader(LastLine) =>
                /\ current_section' = HeaderName(LastLine)
                /\ UNCHANGED <<settings, servers>>
                /\ cpc' = "parse"
          /\ IsAssign(LastLine) =>
                UNCHANGED <<servers, current_section>>
          /\ IsOther(LastLine) =>
                /\ UNCHANGED <<settings, current_section>>
                /\ cpc' = "parse"
                /\ IF current_section \in {KindLocal, KindRemote}
                      /\ Len(SplitWs(LastLine)) >= 2
                   THEN servers' = Append(servers,
                            Server(SplitWs(LastLine)[1], SplitWs(LastLine)[2],
                                   current_section))
                   ELSE servers' = servers]_vars

\* inside [local], the line "3 a=b" was read by the library and added no server
C8_Witness ==
    /\ parser = "lib" /\ cpc = "parse" /\ Len(text) = 2
    /\ current_section = KindLocal
    /\ text[2] = <<"3", " ", "a", "=", "b">>
    /\ servers = <<>>

\* C9: with only the local flag the filter returns exactly the local servers in
\* their order, with only the remote flag the remote ones, and with neither or
\* both flags the full list, in the library and in check-servers.py.
C9_FilterByFlags ==
    cpc = "done" =>
        /\ (args.local /\ ~args.remote) =>
              servers_to_check = SelectSeq(servers, LAMBDA x : x.type = KindLocal)
        /\ (args.remote /\ ~args.local) =>
              servers_to_check = SelectSeq(servers, LAMBDA x : x.type = KindRemote)
        /\ (args.local = args.remote) => servers_to_check = servers

\* C10: find_config_file returns the user path whenever it exists, the system
\* path when only that one exists, None when neither exists, and changes nothing
\* but its return value.
C10_FindConfigFile ==
    [][cpc = "find" =>
          /\ userExists => configFile' = "user"
          /\ (~userExists /\ sysExists) => configFile' = "system"
          /\ (~userExists /\ ~sysExists) => configFile' = "none"
          /\ UNCHANGED <<parser, userExists, sysExists, text, settings, servers,
                         current_section, args, servers_to_check, configExc>>]_vars

\* both paths exist and the user path was returned
C10_Witness == configFile = "user" /\ userExists /\ sysExists

-----------------------------------------------------------------------------
(* Properties of the ping probe: C3, C4. *)

\* the attempts of the model that exit with status zero and print a round-trip
\* time, and the time they print
HasTime(out) ==
    out.exc = "none" /\ out.returncode = 0 /\ out.stdout \in {OutTime5, OutTime15}
TimeOf(out) == IF out.stdout = OutTime5 THEN FloatValue(5, 0) ELSE FloatValue(15, 1)

\* the attempts that exit with status zero and print no round-trip time
ZeroExitNoTime(out) ==
    out.exc = "none" /\ out.returncode = 0 /\ out.stdout \in {<<>>, OutNoUnit, OutOther}

\* C3: an attempt with exit status zero and a time=<number> ms token is the last
\* attempt, and ping_server has returned OK with that number as latency; OK is
\* returned for no other reason; after an attempt with exit status zero and no
\* such token the loop goes on: to a next attempt, or to DOWN when it was the
\* last of the retries.
C3_FirstSuccessWins ==
    /\ \A k \in 1..Len(attempts) :
          HasTime(attempts[k]) =>
              /\ k = Len(attempts)
              /\ ppc = "returned"
              /\ pingResult = PingResult(PingTarget, STATUS_OK, TimeOf(attempts[k]))
    /\ (ppc = "returned" /\ pingResult.status = STATUS_OK) =>
          Len(attempts) >= 1 /\ HasTime(attempts[Len(attempts)])
    /\ \A k \in 1..Len(attempts) :
          ZeroExitNoTime(attempts[k]) =>
              \/ k < Len(attempts)
              \/ ppc = "loop"
              \/ k = pingRetries /\ ppc = "returned" /\ pingResult.status = STATUS_DOWN

\* the second attempt of three succeeded after a first that exited with zero
\* and no time: OK was returned and the third attempt was not made
C3_Witness ==
    /\ pingRetries = 3 /\ Len(attempts) = 2
    /\ ZeroExitNoTime(attempts[1]) /\ HasTime(attempts[2])
    /\ ppc = "returned" /\ pingResult.status = STATUS_OK
    /\ pingResult.latency = FloatValue(15, 1)

\* C4: ping_server never makes more than retries attempts; it returns DOWN only
\* after exactly retries attempts of which none succeeded, and with latency
\* None; whenever it returns after attempts without a success, it returns DOWN;
\* a returned PingResult has latency None unless its status is OK.
C4_ExactlyRetriesThenDown ==
    /\ Len(attempts) <= pingRetries
    /\ (ppc = "returned" /\ pingResult.status = STATUS_DOWN) =>
          /\ Len(attempts) = pingRetries
          /\ \A k \in 1..Len(attempts) : ~HasTime(attempts[k])
    /\ (ppc = "returned" /\ \A k \in 1..Len(attempts) : ~HasTime(attempts[k])) =>
          pingResult = PingResult(PingTarget, STATUS_DOWN, NoLatency)
    /\ ppc = "returned" =>
          /\ pingResult.status \in {STATUS_OK, STATUS_DOWN}
          /\ pingResult.status # STATUS_OK => pingResult.latency = NoLatency

\* three retries, three attempts without success (one of them with exit status
\* zero), and DOWN
C4_Witness ==
    /\ pingRetries = 3 /\ Len(attempts) = 3
    /\ ppc = "returned" /\ pingResult = PingResult(PingTarget, STATUS_DOWN, NoLatency)
    /\ \E k \in 1..3 : ZeroExitNoTime(attempts[k])
    /\ \E k \in 1..3 : attempts[k].returncode = 1

-----------------------------------------------------------------------------
(* Properties of the dispatcher and the render: C1, C2. *)

\* the probe of work item i returned, or raised
Returned(i) == future[i].state = "finished" /\ future[i].outcome.kind = "return"
Raised(i)   == future[i].state = "finished" /\ future[i].outcome.kind = "raise"

\* C1: in run_pings, at every point of the collection and for every order of
\* it, the result map holds an entry under the name of every collected server
\* whose probe returned, and that entry is the PingResult of a probe that
\* returned for a server of that name (the server's own when no other server
\* has its name); a probe that raised adds one error line with its server's name
\* and nothing else, so that the keys of the map are exactly the names of the
\* collected servers whose probe returned; run_pings returns only after every
\* future was collected.
C1_RaisesLoseNoResult ==
    tool = "servers" =>
        /\ \A i \in collected :
              Returned(i) =>
                  /\ Has(results, entities[i].name)
                  /\ \E j \in collected :
                        /\ Returned(j) /\ entities[j].name = entities[i].name
                        /\ results[entities[i].name] = future[j].outcome.result
                  /\ (\A j \in DOMAIN future : j # i => entities[j].name # entities[i].name)
                        => results[entities[i].name] = future[i].outcome.result
        /\ DOMAIN results = {entities[i].name : i \in {j \in collected : Returned(j)}}
        /\ Len(reported) = Cardinality({i \in collected : Raised(i)})
        /\ \A i \in collected :
              Raised(i) => \E k \in 1..Len(reported) : reported[k][1] = entities[i].name
        /\ progress = Cardinality(collected)
        /\ rpc \in {"render", "done"} => collected = DOMAIN future

\* a run of three servers is over: the ping command was missing for the second,
\* the first and the third are in the map with their own results
C1_Witness ==
    /\ tool = "servers" /\ rpc = "done" /\ Len(entities) = 3
    /\ Raised(2) /\ future[2].outcome.exc = "FileNotFoundError"
    /\ Returned(1) /\ Returned(3)
    /\ entities[1].name # entities[3].name
    /\ results[entities[1].name] = future[1].outcome.result
    /\ results[entities[3].name] = future[3].outcome.result
    /\ current = 1

\* the identity of a work item and of a row: a server's name, a site
KeyOf(e)    == IF tool = "servers" THEN e.name ELSE e
RowKey(r)   == IF tool = "servers" THEN r.name ELSE r.site
KeysOf(seq) == [k \in 1..Len(seq) |-> KeyOf(seq[k])]
RowKeys     == [k \in 1..Len(rows) |-> RowKey(rows[k])]

IsShown(e) ==
    /\ Has(results, KeyOf(e))
    /\ ~(tool = "servers" /\ quiet /\ results[KeyOf(e)].status = STATUS_OK)

-----------------------------------------------------------------------------
(* Properties of the check command: C11. *)

\* C11: a check run never ends with a fatal setup error escaping as an
\* exception: when the located configuration file cannot be read, the command
\* prints a message and returns, so that the IOError of parse_config never
\* leaves the run.
C11_SetupErrorsDoNotEscape == ~(cpc = "raised" /\ configExc = "IOError")


-----------------------------------------------------------------------------
(* Properties of the probes of check-docker and check-dns: C18 .. C20. *)

\* the call of the probe is over
Called(f) == fn = f /\ fpc = "done"

\* the names asked for in the call of a container probe
Requested ==
    IF fn = "check_host_containers" THEN fnArgs.containers ELSE fnArgs.container_names

\* the endpoint could not be used: connecting or listing raised a docker error
EndpointFailed == fnEnv.connect \in CaughtDockerErrors \/ fnEnv.list \in CaughtDockerErrors

\* every error of the endpoint during the call is a docker error
OnlyDockerErrors ==
    /\ fnEnv.connect \in CaughtDockerErrors \cup {"none"}
    /\ fnEnv.list \in CaughtDockerErrors \cup {"none"}
    /\ \A k \in DOMAIN fnEnv.all : fnEnv.all[k].imageExc \in CaughtDockerErrors \cup {"none"}

\* how often a name occurs in a sequence of names or of results
Times(seq, n, isName) ==
    Cardinality({k \in DOMAIN seq : (IF isName THEN seq[k] ELSE seq[k].name) = n})

\* C18: when connecting to the endpoint or listing its containers fails with a
\* docker error, every requested container is marked FAIL; and whenever the
\* only errors of the endpoint are docker errors, wherever they occur, the probe
\* returns, with exactly one result for each requested name (as many results
\* of a name as the name was requested).
C18_OneResultPerContainer ==
    ((Called("check_host_containers") \/ Called("get_container_details"))
        /\ OnlyDockerErrors) =>
        /\ fnOutcome.kind = "return"
        /\ Len(fnOutcome.result) = Len(Requested)
        /\ \A k \in DOMAIN Requested :
              Times(fnOutcome.result, Requested[k], FALSE) = Times(Requested, Requested[k], TRUE)
        /\ EndpointFailed =>
              \A k \in DOMAIN fnOutcome.result : fnOutcome.result[k].status = "FAIL"

\* the containers of the listing that have this name
Listed(n) == {fnEnv.all[k] : k \in {j \in DOMAIN fnEnv.all : fnEnv.all[j].name = n}}

\* C19: when the endpoint is reachable, check_host_containers returns one
\* tuple for each configured name, in the order of the names: OK with info
\* 'running' for a name that is in the index and running, DOWN with the state
\* of the container for a name that is in the index and not running, DOWN with
\* 'Not Found' for a name that is not in the index; never FAIL.
C19_StatusFromIndex ==
    (Called("check_host_containers") /\ fnEnv.connect = "none" /\ fnEnv.list = "none") =>
        /\ fnOutcome.kind = "return"
        /\ Len(fnOutcome.result) = Len(fnArgs.containers)
        /\ \A k \in DOMAIN fnArgs.containers :
              LET r == fnOutcome.result[k]
                  n == fnArgs.containers[k]
              IN  /\ r.name = n /\ r.host = fnArgs.host
                  /\ r.status # "FAIL"
                  /\ Listed(n) = {} => r.status = "DOWN" /\ r.info = "Not Found"
                  /\ \A c \in Listed(n) :
                        /\ c.status = "running" => r.status = "OK" /\ r.info = "running"
                        /\ c.status # "running" => r.status = "DOWN" /\ r.info = c.status

\* web, db and app were asked for on a host that runs web and has db exited
C19_Witness ==
    /\ Called("check_host_containers")
    /\ fnArgs.containers = <<NameWeb, NameDb, NameApp>>
    /\ fnOutcome.kind = "return"
    /\ fnOutcome.result[1].status = "OK"
    /\ fnOutcome.result[2].status = "DOWN" /\ fnOutcome.result[2].info = "exited"
    /\ fnOutcome.result[3].status = "DOWN" /\ fnOutcome.result[3].info = "Not Found"

\* C20: in get_dns_records the A query and the AAAA query are independent:
\* whenever each of them answers or fails with no-answer, name-not-found,
\* timeout or no-nameservers, the probe returns, its ipv4 is the A record or '-'
\* after a failure of the A query whatever the AAAA query did, its ipv6 is the
\* AAAA record or '-' whatever the A query did, and its status is OK if and
\* only if one of the two queries answered, else FAIL.
C20_QueriesIndependent ==
    (Called("get_dns_records")
        /\ fnEnv.a.exc \in CaughtDnsErrors \cup {"none"}
        /\ fnEnv.aaaa.exc \in CaughtDnsErrors \cup {"none"}) =>
        /\ fnOutcome.kind = "return"
        /\ fnOutcome.result.ipv4 = (IF fnEnv.a.exc = "none" THEN fnEnv.a.record ELSE Dash)
        /\ fnOutcome.result.ipv6 = (IF fnEnv.aaaa.exc = "none" THEN fnEnv.aaaa.record ELSE Dash)
        /\ fnOutcome.result.status \in {"OK", "FAIL"}
        /\ fnOutcome.result.status = "OK" <=> (fnEnv.a.exc = "none" \/ fnEnv.aaaa.exc = "none")

\* the A query timed out, the AAAA query answered: OK with the AAAA record
C20_Witness ==
    /\ Called("get_dns_records")
    /\ fnEnv.a.exc = "Timeout" /\ fnEnv.aaaa.exc = "none"
    /\ fnOutcome.kind = "return"
    /\ fnOutcome.result = DNSQueryResult("OK", Dash, Addr6)


-----------------------------------------------------------------------------
(* Properties of the dispatchers: C12 .. C15. *)

\* C12: in the dispatchers of check-dns, check-docker.py and check-servers.py,
\* whatever the probe of one item raises, the error is caught for that item: no
\* exception leaves the loop over the futures, the results of all other items
\* are collected, and the table and the summary are rendered.
C12_ProbeErrorsCaughtPerItem ==
    tool \in {"dns", "docker", "standalone"} =>
        /\ rpc # "aborted" /\ configExc = "none"
        /\ rpc \in {"render", "done"} => collected = DOMAIN future
        /\ rpc = "done" => summary # NoSummary


\* the listed servers whose name has an entry in the result map
WithEntry == {k \in DOMAIN entities : Has(results, entities[k].name)}

\* C13: in a check-servers run (run_pings and display_results of the library,
\* main of check-servers.py) every step that
\* collects a future collects one future that was not collected before, and
\* writes the result map exactly once, under the name of that future's server,
\* if the probe returned, and not at all if the probe raised; no other step
\* writes the map. After the render, every row is that of a server with an
\* entry, and the OK count and the DOWN count add up to the number of listed
\* servers with an entry: a server without entry is skipped and counted in
\* neither.
C13_OneWritePerReturnedProbe ==
    /\ [][(tool \in PingTools) =>
            /\ collected' # collected =>
                  \E i \in DOMAIN future \ collected :
                      /\ collected' = collected \cup {i}
                      /\ Returned(i) =>
                            results' = Put(results, entities[i].name, future[i].outcome.result)
                      /\ Raised(i) => results' = results
            /\ collected' = collected => results' = results]_vars
    /\ []((tool \in PingTools /\ rpc = "done") =>
            /\ \A k \in DOMAIN rows : Has(results, rows[k].name)
            /\ summary.up + summary.down = Cardinality(WithEntry)
            /\ Len(rows) <= Cardinality(WithEntry))

\* three servers, the probe of the second raised: the map has no entry for it,
\* and the table has the rows of the two others
C13_Witness ==
    /\ tool = "servers" /\ rpc = "done" /\ ~quiet /\ Len(entities) = 3
    /\ Raised(2) /\ Returned(1) /\ Returned(3)
    /\ ~Has(results, entities[2].name)
    /\ Len(rows) = 2 /\ summary.up + summary.down = 2 /\ summary.total = 3


\* a worker thread ends the probe of work item i in this step
ProbeEnds(i) == future[i].state = "running" /\ future'[i].state = "finished"

\* C14: during a check run a step of a worker thread, which ends a probe,
\* changes nothing but the future of that probe: not the result map, not the
\* reported errors, the progress, the table or the summary, and no other
\* future. Every step that changes the result map is a step of the dispatching
\* thread, the body of its loop over as_completed for one finished future that
\* was not collected, so that the map is written by one thread, one write after
\* the other.
C14_ProbesWriteNoSharedState ==
    [][/\ \A i \in DOMAIN future :
              ProbeEnds(i) =>
                  /\ UNCHANGED <<rpc, tool, entities, collected, current, results,
                                 reported, progress, quiet, rows, summary>>
                  /\ UNCHANGED <<configVars, pingVars, probeVars, editVars>>
                  /\ \A j \in DOMAIN future \ {i} : future'[j] = future[j]
       /\ results' # results =>
              /\ rpc = "collect" /\ future' = future
              /\ \E i \in DOMAIN future \ collected :
                    future[i].state = "finished" /\ collected' = collected \cup {i}]_vars

\* the dispatching thread has written a result into the map while the probe of
\* another work item is still running in its worker thread
C14_Witness ==
    /\ rpc = "collect" /\ results # EmptyMap
    /\ \E i \in DOMAIN future : future[i].state = "running"
    /\ \E j \in collected : Returned(j)


\* C15: in a check run every probe is submitted before a result is collected,
\* the table and the summary are rendered only after every submitted probe has
\* ended (returned or raised), and, every probe ending, the run reaches the
\* point where the render starts.
C15_SubmitCollectRender ==
    /\ [](/\ collected # {} => \A i \in DOMAIN future : future[i].state # "unsubmitted"
          /\ rpc \in {"render", "done"} => \A i \in DOMAIN future : future[i].state = "finished"
          /\ (rows # <<>> \/ summary # NoSummary) => rpc = "done")
    /\ <>(rpc \in {"render", "done"})


-----------------------------------------------------------------------------
(* Properties of the render: C16, C17. *)

\* the listed servers whose name has an OK entry in the result map
OkListed == {k \in WithEntry : results[entities[k].name].status = STATUS_OK}

RECURSIVE SumOfLatencies(_)
\* the sum, in hundredths of a millisecond, of the latencies of the results of
\* these listed servers
SumOfLatencies(S) ==
    IF S = {} THEN 0
    ELSE LET k == CHOOSE x \in S : TRUE
         IN  Hundredths(results[entities[k].name].latency) + SumOfLatencies(S \ {k})

\* the same summary without quiet
Unquiet ==
    CASE tool = "servers"    -> DisplayResults(entities, results, FALSE)
      [] tool = "standalone" -> DisplayStandalone(entities, results, FALSE)
      [] tool = "docker"     -> DisplayDocker(results, FALSE)

\* C16: the average latency of the summary is 0 when no listed server has an
\* OK result, and otherwise the sum of the latencies of the OK results of the
\* listed servers divided by their number, which is the OK count; servers with
\* a DOWN result or with no result add to neither.
C16_AverageOverOkResults ==
    (tool \in PingTools /\ rpc = "done") =>
        /\ summary.up = Cardinality(OkListed)
        /\ OkListed = {} => summary.avg.num = 0 /\ summary.avg.den = 1
        /\ OkListed # {} =>
              /\ summary.avg.den > 0
              /\ summary.avg.num * 100 * Cardinality(OkListed)
                    = SumOfLatencies(OkListed) * summary.avg.den

\* one server answers in 1.5 ms and the other is DOWN: the average is 1.5 ms
C16_Witness ==
    /\ tool = "servers" /\ rpc = "done" /\ Len(entities) = 2
    /\ Cardinality(OkListed) = 1 /\ summary.down = 1
    /\ SumOfLatencies(OkListed) = 150
    /\ summary.avg.num * 100 = 150 * summary.avg.den

-----------------------------------------------------------------------------
(* The choice of the displayed records: C21. *)

\* the record the resolver answered with, if it answered
Answered(q) == q.exc = "none"

\* the first of the two records that was answered, "-" when none was
FirstAnswered(q1, q2) ==
    IF Answered(q1) THEN q1.record ELSE IF Answered(q2) THEN q2.record ELSE Dash

\* C21: a check_site that returns has queried both resolvers (each result holds
\* what its resolver answered), and its display IPv4 is the A record of PIHOLE1
\* when PIHOLE1 answered one, otherwise that of PIHOLE2, otherwise "-"; the
\* display IPv6 is chosen in the same way from the AAAA records, whatever the A
\* queries did.
C21_DisplayPrefersFirstResolver ==
    (Called("check_site") /\ fnOutcome.kind = "return") =>
        LET r == fnOutcome.result
            q == fnEnv.q
        IN  /\ r.ph1_result.ipv4 = (IF Answered(q[1]) THEN q[1].record ELSE Dash)
            /\ r.ph1_result.ipv6 = (IF Answered(q[2]) THEN q[2].record ELSE Dash)
            /\ r.ph2_result.ipv4 = (IF Answered(q[3]) THEN q[3].record ELSE Dash)
            /\ r.ph2_result.ipv6 = (IF Answered(q[4]) THEN q[4].record ELSE Dash)
            /\ r.display_ipv4 = FirstAnswered(q[1], q[3])
            /\ r.display_ipv6 = FirstAnswered(q[2], q[4])

\* PIHOLE1 and PIHOLE2 both have an A record, and only PIHOLE2 has an AAAA record
C21_Witness ==
    /\ Called("check_site") /\ fnOutcome.kind = "return"
    /\ Answered(fnEnv.q[1]) /\ Answered(fnEnv.q[3])
    /\ ~Answered(fnEnv.q[2]) /\ Answered(fnEnv.q[4])
    /\ fnOutcome.result.display_ipv4 = Addr4
    /\ fnOutcome.result.display_ipv6 = Addr6Other


-----------------------------------------------------------------------------
(* Servers that share a name: C26. *)

\* the listed servers of the name of the k-th one
SameName(k) == {j \in DOMAIN entities : entities[j].name = entities[k].name}

\* C26: in a run of the library in which listed servers share a name, the step
\* that collects a returned probe of a name that has an entry replaces that
\* entry by the result of this probe and adds no entry, so that the map holds
\* one entry for the name, that of the probe collected last; the run does not
\* fail, and the render shows for every listed server of that name the row of
\* the entry that was left, whichever server it was measured on.
C26_SharedNameLastCollectedWins ==
    /\ [][(tool = "servers") =>
            \A i \in DOMAIN future \ collected :
                (collected' = collected \cup {i} /\ Returned(i)
                        /\ Has(results, entities[i].name)) =>
                    /\ results'[entities[i].name] = future[i].outcome.result
                    /\ DOMAIN results' = DOMAIN results
                    /\ \A n \in DOMAIN results \ {entities[i].name} :
                          results'[n] = results[n]]_vars
    /\ [](tool = "servers" =>
            /\ rpc # "aborted" /\ configExc = "none"
            /\ (current # 0 /\ Returned(current)) =>
                  results[entities[current].name] = future[current].outcome.result
            /\ (rpc = "done" /\ ~quiet) =>
                  /\ Len(rows) = Cardinality(WithEntry)
                  /\ \A k \in DOMAIN rows :
                        rows[k] = ServerRow(results[rows[k].name]))

\* the first and the third server share a name; the first answered, the third
\* is DOWN and was collected before the first: both rows show the first one's
\* OK result and address
C26_Witness ==
    /\ tool = "servers" /\ rpc = "done" /\ ~quiet /\ Len(entities) = 3
    /\ SameName(1) = {1, 3} /\ entities[1].ip # entities[3].ip
    /\ Returned(1) /\ Returned(2) /\ Returned(3)
    /\ future[1].outcome.result.status = STATUS_OK
    /\ future[3].outcome.result.status = STATUS_DOWN
    /\ current = 1
    /\ results[entities[1].name] = future[1].outcome.result
    /\ Len(rows) = 3 /\ rows[1] = rows[3] /\ rows[3].ip = entities[1].ip
    /\ rows[3].status = STATUS_OK


-----------------------------------------------------------------------------
(* The order of the rows of check-docker: C28. *)

RECURSIVE ConfigOrder(_, _)
\* the (container, host) pairs of containers_by_host in the order of the
\* configuration, from its k-th host on
ConfigOrder(hosts, k) ==
    IF k > Len(hosts) THEN <<>>
    ELSE [j \in 1..Len(hosts[k].containers) |-> <<hosts[k].containers[j], hosts[k].host>>]
            \o ConfigOrder(hosts, k + 1)

\* C28: the rows of a check-docker table that shows every container are in the
\* order in which the containers appear in the parsed configuration, whatever
\* the order in which the probes of the hosts completed.
C28_DockerRowsInConfigOrder ==
    (tool = "docker" /\ rpc = "done" /\ ~quiet) =>
        [k \in 1..Len(rows) |-> <<rows[k].name, rows[k].host>>] = ConfigOrder(entities, 1)


-----------------------------------------------------------------------------
(* The counters and the denominator of the summary: C30. *)

\* C30: after display_results, the OK count and the DOWN count add up to the
\* number of listed servers whose name has an entry in the result map; the
\* denominator of the STATS line is the number of listed servers, which the sum
\* never exceeds and which it equals exactly when every listed server has an
\* entry.
C30_CountsAgainstDenominator ==
    (tool = "servers" /\ rpc = "done") =>
        /\ summary.up + summary.down = Cardinality(WithEntry)
        /\ summary.total = Len(entities)
        /\ summary.up + summary.down <= summary.total
        /\ (summary.up + summary.down = summary.total) <=> (WithEntry = DOMAIN entities)

\* the probe of one of two servers raised: 1/2 Online, 0 Down
C30_Witness ==
    /\ tool = "servers" /\ rpc = "done" /\ Len(entities) = 2
    /\ Raised(1) /\ Returned(2) /\ WithEntry = {2}
    /\ summary.up = 1 /\ summary.down = 0 /\ summary.total = 2


-----------------------------------------------------------------------------
(* The configuration commands: C22, C23, C24, C25, C27, C29. *)

\* the invocation i ends its add with the write in this step
AddWrites(i) == inv[i].cmd = "add" /\ inv[i].pc = "write" /\ inv'[i].pc = "done"

\* the lines of a text that are not blank, stripped
StrippedLines(t) ==
    LET ls == ReadLines(t)
    IN  SelectSeq([k \in 1..Len(ls) |-> Strip(ls[k])], LAMBDA l : l # <<>>)

\* seq with x put behind its k-th element
InsertedAfter(seq, k, x) == SubSeq(seq, 1, k) \o <<x>> \o SubSeq(seq, k + 1, Len(seq))

\* seq without its k-th element
Without(seq, k) == SubSeq(seq, 1, k - 1) \o SubSeq(seq, k + 1, Len(seq))

\* C22: the write of an add on the user's file leaves the lines of the file as
\* they were and in their order, with the new entry right behind a header line
\* of its section when the file has one, and with the header and the entry at
\* the end when it has none.
C22_EntryUnderItsHeader ==
    [][\A i \in DOMAIN inv :
          (Len(inv) = 1 /\ AddWrites(i)) =>
              LET old     == StrippedLines(userFile.content)
                  new     == StrippedLines(userFile'.content)
                  header  == SectionHeader(inv[i].type)
                  entry   == Strip(NewEntry(inv[i].ip, inv[i].name))
                  headers == {k \in DOMAIN old : old[k] = header}
              IN  IF headers # {}
                  THEN \E k \in headers : new = InsertedAfter(old, k, entry)
                  ELSE new = old \o <<header, entry>>]_vars

\* C29: after the write of an add on the user's file, parse_config yields a
\* server of the ip, the name and the type that were given, and besides it the
\* servers it yielded before, as they were and in their order.
C29_AddedServerIsParsed ==
    [][\A i \in DOMAIN inv :
          (Len(inv) = 1 /\ AddWrites(i)) =>
              LET old == ParseConfig(userFile.content).servers
                  new == ParseConfig(userFile'.content).servers
              IN  \E k \in DOMAIN new :
                      /\ new[k] = Server(inv[i].ip, inv[i].name, inv[i].type)
                      /\ Without(new, k) = old]_vars

\* C23: no step of an add or of a remove changes the system-wide file, and a
\* command that has located the system-wide file changes no file and ends with
\* the error.
C23_SystemFileIsNeverWritten ==
    /\ [][sysFile' = sysFile]_vars
    /\ [][(\E i \in DOMAIN inv : inv'[i].config_file = "system")
            => UNCHANGED <<userFile, sysFile>>]_vars
    /\ [](\A i \in DOMAIN inv :
            inv[i].config_file = "system" =>
                /\ inv[i].pc = "done" /\ inv[i].out = "refused"
                /\ ~userFile.exists /\ sysFile = File(TRUE, SystemText))

\* an add on a system that has the system-wide file only
C23_Witness ==
    /\ Len(inv) = 1 /\ inv[1].cmd = "add" /\ inv[1].pc = "done"
    /\ inv[1].config_file = "system" /\ inv[1].out = "refused"
    /\ sysFile = File(TRUE, SystemText) /\ ~userFile.exists

\* the remove commands that have read the selection
Selected == {i \in DOMAIN inv : /\ inv[i].cmd = "remove" /\ inv[i].servers # <<>>
                                /\ inv[i].pc \notin {"start", "parse", "choose"}}

\* C24: a remove whose selection is 0 is cancelled, and one whose selection is
\* no number, or a number outside 1..len(servers), is invalid; such a remove
\* ends there, and no step of a remove up to and including the reading of the
\* selection changes a file.
C24_BadSelectionChangesNothing ==
    /\ [](\A i \in Selected :
            LET v == ParseInt(inv[i].input)
                n == Len(inv[i].servers)
            IN  /\ (v.kind = "int" /\ v.mant = 0) => inv[i].out = "cancelled"
                /\ (v.kind # "int" \/ v.mant < 0 \/ v.mant > n) => inv[i].out = "invalid"
                /\ (v.kind = "int" /\ v.mant \in 1..n) =>
                        inv[i].out \in {"none", "success"} /\ inv[i].choice = v.mant
                /\ inv[i].out \in {"cancelled", "invalid"} =>
                        inv[i].pc = "done" /\ inv[i].lines = <<>>)
    /\ [][(Len(inv) = 1 /\ inv[1].cmd = "remove"
                /\ inv[1].pc \in {"start", "parse", "choose"})
            => UNCHANGED <<userFile, sysFile>>]_vars

\* the selection 4 for a list of two servers
C24_Witness ==
    /\ Len(inv) = 1 /\ inv[1].cmd = "remove" /\ inv[1].pc = "done"
    /\ inv[1].input = <<"4">> /\ Len(inv[1].servers) = 2
    /\ inv[1].out = "invalid"
    /\ Len(ParseConfig(userFile.content).servers) = 2

\* the line holds the address and the name of the server as substrings
Matches(server, line) == In(server.ip, line) /\ In(server.name, line)

\* C25: a remove with a valid selection leaves in the file the lines it read
\* that do not hold both the address and the name of the selected server, as
\* they were and in their order, and nothing else; parse_config of the file no
\* longer yields the selected server.
C25_OnlyMatchingLinesRemoved ==
    \A i \in DOMAIN inv :
        (Len(inv) = 1 /\ inv[i].cmd = "remove" /\ inv[i].out = "success") =>
            LET sel == inv[i].servers[inv[i].choice]
            IN  /\ ReadLines(userFile.content)
                      = SelectSeq(inv[i].lines, LAMBDA line : ~Matches(sel, line))
                /\ \A k \in DOMAIN inv[i].lines :
                      Matches(sel, inv[i].lines[k]) \/ In(inv[i].lines[k], userFile.content)
                /\ LET after == ParseConfig(userFile.content).servers
                   IN  \A k \in DOMAIN after : after[k] # sel

\* the server 2 b is removed from a file with a header, a setting and the
\* server 1 a: the three other lines are left
C25_Witness ==
    /\ Len(inv) = 1 /\ inv[1].cmd = "remove" /\ inv[1].out = "success"
    /\ Len(inv[1].lines) = 3 /\ inv[1].choice = 2
    /\ inv[1].servers[2].name = <<"b">>
    /\ Len(ReadLines(userFile.content)) = 2
    /\ ParseConfig(userFile.content).servers = <<inv[1].servers[1]>>

\* both commands have ended with a write
BothWrote == \A i \in DOMAIN inv : inv[i].pc = "done" /\ inv[i].out = "success"

\* none of the two commands took a step between two steps of the other
Sequential == \A i \in DOMAIN inv : inv[i].alone

\* the change of the command i is in the file: the entry of an add is a line of
\* it, no line of it holds the address and the name of the server of a remove
ChangeKept(i) ==
    LET ls == ReadLines(userFile.content)
    IN  IF inv[i].cmd = "add"
        THEN \E k \in DOMAIN ls : ls[k] = NewEntry(inv[i].ip, inv[i].name)
        ELSE \A k \in DOMAIN ls : ~Matches(inv[i].servers[inv[i].choice], ls[k])

\* the entry an add writes holds the address and the name of the server that
\* a remove of the same run selects
EntryMatched ==
    \E i, j \in DOMAIN inv :
        /\ inv[i].cmd = "add" /\ inv[j].cmd = "remove" /\ inv[j].choice # 0
        /\ Matches(inv[j].servers[inv[j].choice], NewEntry(inv[i].ip, inv[i].name))

\* a remove of the run has selected the very server that an add of it added
RemovesAdded ==
    \E i, j \in DOMAIN inv :
        /\ inv[i].cmd = "add" /\ inv[j].cmd = "remove" /\ inv[j].choice # 0
        /\ inv[j].servers[inv[j].choice] = Server(inv[i].ip, inv[i].name, inv[i].type)

\* C27 as it was stated: two commands that ran one after the other have both
\* left their change in the file (a remove that selects the server the other
\* command added is no loss of a change).
C27_SequentialKeepsBothChanges ==
    (Len(inv) = 2 /\ BothWrote /\ Sequential /\ ~RemovesAdded)
        => \A i \in DOMAIN inv : ChangeKept(i)

\* C27: two commands that ran one after the other on the user's file have both
\* left their change in the file, unless the entry that one of them added holds
\* the address and the name of the server that the other removed; two commands
\* whose steps interleave can end with the change of one of them lost.
C27_SequentialKeepsUnmatchedChanges ==
    (Len(inv) = 2 /\ BothWrote /\ Sequential /\ ~EntryMatched)
        => \A i \in DOMAIN inv : ChangeKept(i)

\* a lost update: two adds read the file before either wrote it, and the entry
\* of one of them is not in the file
C27_Witness ==
    /\ Len(inv) = 2 /\ BothWrote /\ ~Sequential /\ ~EntryMatched
    /\ inv[1].cmd = "add" /\ inv[2].cmd = "add"
    /\ \E i \in DOMAIN inv : ~ChangeKept(i)
    /\ \E i \in DOMAIN inv : ChangeKept(i)


-----------------------------------------------------------------------------
(* The grouping of containers under hosts: C31. *)

\* the lines of the file that are neither blank nor comments, stripped
Significant(lines) ==
    SelectSeq([k \in 1..Len(lines) |-> Strip(lines[k])],
              LAMBDA l : l # <<>> /\ ~StartsWith(l, "#"))

\* the line is a host marker, and the host it names
IsMarker(l) == HasPrefix(l, HostMarker)
MarkedHost(l) == Strip(SubSeq(l, Len(HostMarker) + 1, Len(l)))

\* the markers before the k-th significant line
MarkersBefore(sig, k) == {j \in 1..(k - 1) : IsMarker(sig[j])}

\* the container lines that stand under a marker of this host, in file order
Under(sig, host) ==
    LET at == SelectSeq([k \in 1..Len(sig) |-> k],
                        LAMBDA k : /\ ~IsMarker(sig[k])
                                   /\ MarkersBefore(sig, k) # {}
                                   /\ MarkedHost(sig[SetMax(MarkersBefore(sig, k))]) = host)
    IN  [j \in 1..Len(at) |-> sig[at[j]]]

\* the hosts of the markers, each once, in the order of their first marker
MarkedHosts(sig) ==
    LET first == SelectSeq([k \in 1..Len(sig) |-> k],
                           LAMBDA k : /\ IsMarker(sig[k])
                                      /\ \A j \in MarkersBefore(sig, k) :
                                            MarkedHost(sig[j]) # MarkedHost(sig[k]))
    IN  [j \in 1..Len(first) |-> MarkedHost(sig[first[j]])]

\* the result of parse_config has one entry for each host that a marker names,
\* with the container lines that stand under the markers of that host, in file
\* order; the lines before the first marker are in no entry
GroupedUnderMarkers(lines, containers_by_host) ==
    LET sig == Significant(lines)
    IN  /\ [k \in 1..Len(containers_by_host) |-> containers_by_host[k].host]
              = MarkedHosts(sig)
        /\ \A k \in DOMAIN containers_by_host :
              containers_by_host[k].containers = Under(sig, containers_by_host[k].host)

\* C31: parse_config of check-docker.py returns, without error, one entry for
\* each host named by a host= marker, which holds the non-blank, non-comment
\* lines that follow the markers of that host, in file order: a marker that
\* repeats a host adds to the list of that host, a host without container
\* lines has an empty list, and the lines before the first marker are dropped.
C31_ContainersGroupedByHost ==
    Called("parse_config") =>
        /\ fnOutcome.kind = "return"
        /\ GroupedUnderMarkers(fnArgs.lines, fnOutcome.result)

=============================================================================
